---- MODULE Spec2Model ----
(***************************************************************************)
(* Model of the prompt-response reconciliation loop of getgen:             *)
(* Agent.execute / Agent.executeWithRetry (src/src/core/Agent.ts) on top   *)
(* of AIClient (src/src/core/AIClient.ts, the class that starts at line    *)
(* 391, which is the one whose public buildSystemPrompt Agent calls) and   *)
(* ToolManager (src/src/core/tools/ToolManager.ts).                        *)
(*                                                                         *)
(* Six specifications share the module: Spec is an Agent in use           *)
(* (execute, prompt, chat), one call at a time; FairSpec is its execute    *)
(* calls under the assumption that every awaited operation settles;        *)
(* PairSpec is two execute calls in progress together on one Agent;        *)
(* ClientSpec is an AIClient with its ToolManager that the application     *)
(* drives itself (addTool, removeTool, listTools, executeTool, generate),  *)
(* BuilderSpec is a client whose system prompt is built as tools are       *)
(* added, and ParserSpec applies the parsing methods of the two AIClient   *)
(* classes to one input each.                                              *)
(*                                                                         *)
(* Text is modelled as a sequence of tokens.  A token stands for a fixed   *)
(* piece of text: a brace, the TOOL_CALL: marker, a JSON member, a JSON    *)
(* key, or a run of prose that holds no brace and no marker.  Whitespace   *)
(* and the commas between JSON members are not represented: the regular    *)
(* expressions of the code skip whitespace and JSON.parse accepts         *)
(* it, and every member token is taken to carry the comma it needs.        *)
(***************************************************************************)
EXTENDS Integers, Sequences, FiniteSets, TLC

(***************************************************************************)
(* Tokens                                                                  *)
(***************************************************************************)
Tok(k, key, ty, val) == [k |-> k, key |-> key, ty |-> ty, val |-> val]

LB == Tok("lb", "", "", "")                \* {
RB == Tok("rb", "", "", "")                \* }
TC == Tok("tc", "", "", "")                \* TOOL_CALL:
W  == Tok("w", "", "", "")                 \* prose, e.g. Invalid JSON
KV(key, ty, val) == Tok("kv", key, ty, val)  \* "key": value  (a primitive value)
KEY(key) == Tok("key", key, "", "")        \* "key":  (the value follows)

(***************************************************************************)
(* JSON values.  A parsed object is a function from paths (sequences of    *)
(* keys) to [ty, val]; a nested object has an entry of type "object" at    *)
(* its own path and its members below it.                                  *)
(***************************************************************************)
EmptyObj == [p \in {} |-> [ty |-> "", val |-> ""]]

IsPrefix(p, q) == Len(p) <= Len(q) /\ SubSeq(q, 1, Len(p)) = p

\* obj[key] = value: a later duplicate key replaces the earlier member whole
Put(obj, p, v) ==
    [q \in ({r \in DOMAIN obj : ~IsPrefix(p, r)} \cup {p}) |->
        IF q = p THEN v ELSE obj[q]]

ParseFail == [ok |-> FALSE, next |-> 0, obj |-> EmptyObj]

RECURSIVE ParseMembers(_, _, _, _)
ParseMembers(s, i, pre, acc) ==
    IF i > Len(s) THEN ParseFail
    ELSE IF s[i].k = "rb" THEN [ok |-> TRUE, next |-> i + 1, obj |-> acc]
    ELSE IF s[i].k = "kv"
         THEN ParseMembers(s, i + 1, pre,
                  Put(acc, Append(pre, s[i].key), [ty |-> s[i].ty, val |-> s[i].val]))
    ELSE IF s[i].k = "key" /\ i + 1 <= Len(s) /\ s[i + 1].k = "lb"
         THEN LET p == Append(pre, s[i].key)
                  r == ParseMembers(s, i + 2, p,
                           Put(acc, p, [ty |-> "object", val |-> ""]))
              IN  IF r.ok THEN ParseMembers(s, r.next, pre, r.obj) ELSE ParseFail
    ELSE ParseFail

\* JSON.parse(text): ok = FALSE stands for the SyntaxError it throws
JSONparse(s) ==
    IF Len(s) >= 2 /\ s[1].k = "lb"
    THEN LET r == ParseMembers(s, 2, <<>>, EmptyObj)
         IN  IF r.ok /\ r.next = Len(s) + 1
             THEN [ok |-> TRUE, obj |-> r.obj]
             ELSE [ok |-> FALSE, obj |-> EmptyObj]
    ELSE [ok |-> FALSE, obj |-> EmptyObj]

\* obj.key of a parsed object: the sub-object below key, re-rooted
Sub(obj, key) ==
    [q \in {SubSeq(r, 2, Len(r)) : r \in {x \in DOMAIN obj : Len(x) >= 2 /\ x[1] = key}} |->
        obj[<<key>> \o q]]

Has(obj, key) == <<key>> \in DOMAIN obj

\* JavaScript truthiness of obj.key
Truthy(obj, key) ==
    /\ Has(obj, key)
    /\ LET v == obj[<<key>>]
       IN  CASE v.ty = "string"  -> v.val # ""
             [] v.ty = "number"  -> v.val # "0"
             [] v.ty = "boolean" -> v.val = "true"
             [] v.ty = "null"    -> FALSE
             [] OTHER            -> TRUE

(***************************************************************************)
(* AIClient.extractToolCalls: the regular expression                       *)
(*   TOOL_CALL: { ...? "tool": "<name>" ...? "parameters": ({ ...? }) }    *)
(* with lazy gaps, applied repeatedly (flag g), each match's parameter     *)
(* group handed to JSON.parse; a group that does not parse is skipped.     *)
(* When no call was found the whole text is tried as one JSON tool call.   *)
(***************************************************************************)
Min(S) == CHOOSE x \in S : \A y \in S : x <= y

IsToolMember(t) == t.k = "kv" /\ t.key = "tool" /\ t.ty = "string" /\ t.val # ""

\* positions where the parameter group can end: a } directly followed by }
EndsFrom(s, p) ==
    {e \in (p + 2)..(Len(s) - 1) : s[e].k = "rb" /\ s[e + 1].k = "rb"}

\* positions of a "parameters": key directly followed by { that can be completed
ParamsFrom(s, a) ==
    {p \in (a + 1)..(Len(s) - 1) :
        /\ s[p].k = "key" /\ s[p].key = "parameters"
        /\ s[p + 1].k = "lb"
        /\ EndsFrom(s, p) # {}}

ToolsFrom(s, i) ==
    {a \in (i + 2)..Len(s) : IsToolMember(s[a]) /\ ParamsFrom(s, a) # {}}

\* positions at or after from where the expression matches
Starts(s, from) ==
    {i \in from..(Len(s) - 1) :
        s[i].k = "tc" /\ s[i + 1].k = "lb" /\ ToolsFrom(s, i) # {}}

RECURSIVE RegexToolCalls(_, _)
RegexToolCalls(s, from) ==
    IF Starts(s, from) = {} THEN <<>>
    ELSE LET i == Min(Starts(s, from))
             a == Min(ToolsFrom(s, i))
             p == Min(ParamsFrom(s, a))
             e == Min(EndsFrom(s, p))
             parsed == JSONparse(SubSeq(s, p + 1, e))
             rest == RegexToolCalls(s, e + 2)
         IN  IF parsed.ok
             THEN <<[name |-> s[a].val, ptype |-> "object",
                     parameters |-> parsed.obj]>> \o rest
             ELSE rest

extractToolCalls(text) ==
    LET found == RegexToolCalls(text, 1)
        whole == JSONparse(text)
    IN  IF found # <<>> THEN found
        ELSE IF whole.ok /\ Truthy(whole.obj, "tool") /\ Truthy(whole.obj, "parameters")
             THEN <<[name |-> whole.obj[<<"tool">>].val,
                     ptype |-> whole.obj[<<"parameters">>].ty,
                     parameters |-> Sub(whole.obj, "parameters")]>>
             ELSE <<>>

(***************************************************************************)
(* Agent.executeWithRetry, line 144: response.text.match of the greedy     *)
(* expression { ... }, i.e. from the first { to the last } after it.       *)
(***************************************************************************)
jsonMatch(text) ==
    LET opens == {i \in 1..Len(text) : text[i].k = "lb"}
        closes == {j \in 1..Len(text) : text[j].k = "rb"}
    IN  IF opens = {} \/ {j \in closes : j > Min(opens)} = {}
        THEN [found |-> FALSE, text |-> <<>>]
        ELSE [found |-> TRUE,
              text |-> SubSeq(text, Min(opens),
                              CHOOSE j \in closes : \A x \in closes : x <= j)]

(***************************************************************************)
(* The schema engine (zod), as Agent.executeWithRetry uses it at line 176: *)
(* schema.safeParse(value) of a z.object whose fields are required         *)
(* primitives.  Every field in shape order contributes at most one issue   *)
(* (missing key, or wrong type); unknown keys are stripped from the data.  *)
(***************************************************************************)
customerSchema == <<[name |-> "customer_id", ty |-> "string"]>>
personSchema == <<[name |-> "name", ty |-> "string"], [name |-> "age", ty |-> "number"]>>

RECURSIVE Issues(_, _, _)
Issues(schema, obj, i) ==
    IF i > Len(schema) THEN <<>>
    ELSE LET f == schema[i]
             here == IF ~Has(obj, f.name)
                     THEN <<[path |-> f.name, expected |-> f.ty, received |-> "undefined"]>>
                     ELSE IF obj[<<f.name>>].ty # f.ty
                     THEN <<[path |-> f.name, expected |-> f.ty,
                             received |-> obj[<<f.name>>].ty]>>
                     ELSE <<>>
         IN  here \o Issues(schema, obj, i + 1)

\* a validation that reports the first issue only
safeParseFirstIssue(schema, obj) ==
    LET errs == Issues(schema, obj, 1)
        keys == {<<schema[i].name>> : i \in 1..Len(schema)}
    IN  [success |-> errs = <<>>,
         data |-> IF errs = <<>> THEN [p \in keys |-> obj[p]] ELSE EmptyObj,
         errors |-> IF errs = <<>> THEN <<>> ELSE <<errs[1]>>]

\* schema.safeParse of line 176: success with the validated value, or every
\* issue in the order of the schema's fields
safeParse(schema, obj) ==
    LET errs == Issues(schema, obj, 1)
        keys == {<<schema[i].name>> : i \in 1..Len(schema)}
    IN  [success |-> errs = <<>>,
         data |-> IF errs = <<>> THEN [p \in keys |-> obj[p]] ELSE EmptyObj,
         errors |-> errs]

(***************************************************************************)
(* Tools.  A tool is user code; these are modelled: the example tool of    *)
(* the repository (parse_customer_id, one required parameter, returns      *)
(* the padded id), a tool without parameters whose execute throws, the     *)
(* calculator of the documentation, and a name (ghost) that is never       *)
(* registered.                                                             *)
(***************************************************************************)
ToolNames == {"parse_customer_id", "boom"}

\* the tools an application registers on a client it drives itself: the two
\* above and the calculator of the documentation, with three required parameters
ClientToolNames == ToolNames \cup {"calculator"}

ToolParameters(name) ==
    IF name = "parse_customer_id"
    THEN <<[name |-> "customerid", required |-> TRUE]>>
    ELSE IF name = "calculator"
    THEN <<[name |-> "a", required |-> TRUE], [name |-> "b", required |-> TRUE],
           [name |-> "operation", required |-> TRUE]>>
    ELSE <<>>

\* String(params.customerid).padStart(7, '0'), for the ids the responses carry
PadStart7(v) == IF v = "1451" THEN "0001451" ELSE IF v = "7" THEN "0000007" ELSE v

\* a + b, for the operands the calls carry
Plus(a, b) == IF a = "1" /\ b = "2" THEN "3" ELSE "NaN"

\* tool.execute(parameters): threw = TRUE stands for a thrown Error(val)
ToolBody(name, parameters) ==
    IF name = "parse_customer_id"
    THEN [threw |-> FALSE,
          val |-> IF Has(parameters, "customerid")
                  THEN PadStart7(parameters[<<"customerid">>].val)
                  ELSE "undefined"]
    ELSE IF name = "calculator"
    THEN IF Has(parameters, "operation") /\ parameters[<<"operation">>].val = "add"
         THEN [threw |-> FALSE,
               val |-> IF Has(parameters, "a") /\ Has(parameters, "b")
                       THEN Plus(parameters[<<"a">>].val, parameters[<<"b">>].val)
                       ELSE "NaN"]
         ELSE [threw |-> TRUE, val |-> "Unsupported operation"]
    ELSE [threw |-> TRUE, val |-> "boom failed"]

(***************************************************************************)
(* ToolManager.addTool and the forEach of Agent.execute that registers     *)
(* every tool of the call: the first duplicate name throws and leaves the  *)
(* tools registered before it in the registry.                             *)
(***************************************************************************)
InSeq(x, sq) == \E i \in 1..Len(sq) : sq[i] = x

RECURSIVE RegisterAll(_, _, _)
RegisterAll(reg, tools, i) ==
    IF i > Len(tools) THEN [ok |-> TRUE, reg |-> reg, dup |-> ""]
    ELSE IF InSeq(tools[i], reg) THEN [ok |-> FALSE, reg |-> reg, dup |-> tools[i]]
    ELSE RegisterAll(Append(reg, tools[i]), tools, i + 1)

(***************************************************************************)
(* AIClient.executeTool (lines 518-553)                                    *)
(***************************************************************************)
\* a check that takes every parameter for optional
MissingParamsNone(name, parameters) == <<>>

MissingParams(name, parameters) ==
    SelectSeq(ToolParameters(name),
              LAMBDA p : p.required /\ ~Has(parameters, p.name))

ToolResult(success, kind, val, names) ==
    [success |-> success, kind |-> kind, val |-> val, names |-> names]

\* an executeTool without the lookup test: tool.parameters of undefined throws
executeToolNoLookup(reg, call) ==
    IF ~InSeq(call.name, reg)
    THEN ToolResult(FALSE, "typeerror", "TypeError", <<>>)
    ELSE IF MissingParams(call.name, call.parameters) # <<>>
    THEN ToolResult(FALSE, "missing", "",
             [i \in 1..Len(MissingParams(call.name, call.parameters)) |->
                 MissingParams(call.name, call.parameters)[i].name])
    ELSE LET r == ToolBody(call.name, call.parameters)
         IN  IF r.threw
             THEN ToolResult(FALSE, "threw", r.val, <<>>)
             ELSE ToolResult(TRUE, "data", r.val, <<>>)

\* an executeTool whose catch reports the error as the tool's data
executeToolSwallows(reg, call) ==
    IF ~InSeq(call.name, reg)
    THEN ToolResult(FALSE, "notfound", call.name, <<>>)
    ELSE IF MissingParams(call.name, call.parameters) # <<>>
    THEN ToolResult(FALSE, "missing", "",
             [i \in 1..Len(MissingParams(call.name, call.parameters)) |->
                 MissingParams(call.name, call.parameters)[i].name])
    ELSE ToolResult(TRUE, "data", ToolBody(call.name, call.parameters).val, <<>>)

executeTool(reg, call) ==
    IF ~InSeq(call.name, reg)
    THEN ToolResult(FALSE, "notfound", call.name, <<>>)
    ELSE IF call.ptype # "object"
            /\ \E i \in 1..Len(ToolParameters(call.name)) : ToolParameters(call.name)[i].required
    THEN ToolResult(FALSE, "typeerror", "TypeError", <<>>) \* the in operator on a primitive
    ELSE IF MissingParams(call.name, call.parameters) # <<>>
    THEN ToolResult(FALSE, "missing", "",
             [i \in 1..Len(MissingParams(call.name, call.parameters)) |->
                 MissingParams(call.name, call.parameters)[i].name])
    ELSE LET r == ToolBody(call.name, call.parameters)
         IN  IF r.threw
             THEN ToolResult(FALSE, "threw", r.val, <<>>)
             ELSE ToolResult(TRUE, "data", r.val, <<>>)

(***************************************************************************)
(* ToolManager (src/src/core/tools/ToolManager.ts).  The Map of tools is   *)
(* the sequence of its values in insertion order; a tool object is its     *)
(* name and a revision, so that two different tools can share a name.      *)
(* threw = TRUE stands for the Error the method throws.                    *)
(***************************************************************************)
Names(tools) == [i \in 1..Len(tools) |-> tools[i].name]

NoErr == [kind |-> "none", name |-> ""]

\* an addTool without the has test: Map.set replaces the tool of that name
ToolManager_addToolOverwrites(tools, tool) ==
    [threw |-> FALSE, error |-> NoErr,
     tools |-> IF InSeq(tool.name, Names(tools))
               THEN [i \in 1..Len(tools) |->
                        IF tools[i].name = tool.name THEN tool ELSE tools[i]]
               ELSE Append(tools, tool)]

\* lines 10-15
ToolManager_addTool(tools, tool) ==
    IF InSeq(tool.name, Names(tools))
    THEN [threw |-> TRUE, error |-> [kind |-> "exists", name |-> tool.name], tools |-> tools]
    ELSE [threw |-> FALSE, error |-> NoErr, tools |-> Append(tools, tool)]

\* a removeTool without the has test: Map.delete of an absent key is silent
ToolManager_removeToolSilent(tools, toolName) ==
    [threw |-> FALSE, error |-> NoErr,
     tools |-> SelectSeq(tools, LAMBDA t : t.name # toolName)]

\* lines 17-22
ToolManager_removeTool(tools, toolName) ==
    IF ~InSeq(toolName, Names(tools))
    THEN [threw |-> TRUE, error |-> [kind |-> "notfound", name |-> toolName], tools |-> tools]
    ELSE [threw |-> FALSE, error |-> NoErr,
          tools |-> SelectSeq(tools, LAMBDA t : t.name # toolName)]

\* lines 24-26
ToolManager_listTools(tools) == tools

\* lines 28-59: the for loop returns at the first required parameter that
\* is missing
ToolManager_executeTool(reg, call) ==
    IF ~InSeq(call.name, reg)
    THEN ToolResult(FALSE, "notfound", call.name, <<>>)
    ELSE IF call.ptype # "object"
            /\ \E i \in 1..Len(ToolParameters(call.name)) : ToolParameters(call.name)[i].required
    THEN ToolResult(FALSE, "typeerror", "TypeError", <<>>)
    ELSE IF MissingParams(call.name, call.parameters) # <<>>
    THEN ToolResult(FALSE, "missing", "",
             <<MissingParams(call.name, call.parameters)[1].name>>)
    ELSE LET r == ToolBody(call.name, call.parameters)
         IN  IF r.threw
             THEN ToolResult(FALSE, "threw", r.val, <<>>)
             ELSE ToolResult(TRUE, "data", r.val, <<>>)

(***************************************************************************)
(* AIClient.executeTool of the class of lines 18-344 (lines 312-343): as   *)
(* lines 518-553, but line 336 returns what tool.execute returned as it    *)
(* is.  kind = "raw" stands for that value, which is no result record      *)
(* (its success is undefined).                                             *)
(***************************************************************************)
executeToolFirst(reg, call) ==
    IF ~InSeq(call.name, reg)
    THEN ToolResult(FALSE, "notfound", call.name, <<>>)
    ELSE IF call.ptype # "object"
            /\ \E i \in 1..Len(ToolParameters(call.name)) : ToolParameters(call.name)[i].required
    THEN ToolResult(FALSE, "typeerror", "TypeError", <<>>)
    ELSE IF MissingParams(call.name, call.parameters) # <<>>
    THEN ToolResult(FALSE, "missing", "",
             [i \in 1..Len(MissingParams(call.name, call.parameters)) |->
                 MissingParams(call.name, call.parameters)[i].name])
    ELSE LET r == ToolBody(call.name, call.parameters)
         IN  IF r.threw
             THEN ToolResult(FALSE, "threw", r.val, <<>>)
             ELSE ToolResult(FALSE, "raw", r.val, <<>>)

\* what the object literals of the three executeTool hold
IsResultRecord(r) == r.kind # "raw"
HasData(r) == r.kind = "data"
HasError(r) == r.kind \in {"notfound", "typeerror", "missing", "threw"}

\* tool.execute was called: the result is its value or the error it threw
Ran(r) == r.kind \in {"data", "raw", "threw"}

(***************************************************************************)
(* What the generation capability may answer.                              *)
(***************************************************************************)
ToolBlock(name, members) ==
    <<TC, LB, KV("tool", "string", name), KEY("parameters"), LB>> \o members \o <<RB, RB>>

CustomerJson == <<LB, KV("customer_id", "string", "C0001451"), RB>>
CallParse == ToolBlock("parse_customer_id", <<KV("customerid", "number", "1451")>>)

RProse == <<W>>
RValid == CustomerJson
RWrapped == <<W>> \o CustomerJson \o <<W>>
RMalformed == <<LB, W, RB>>
RMismatch == <<LB, KV("customer_id", "number", "1451"), RB>>
RPerson == <<LB, KV("name", "string", "John"), KV("age", "number", "30"), RB>>
RTool == CallParse
RToolThenJson == CallParse \o CustomerJson
RWholeTool == <<LB, KV("tool", "string", "parse_customer_id"), KEY("parameters"), LB,
                KV("customerid", "number", "7"), RB,
                KV("customer_id", "string", "C0000007"), RB>>
RMixedTools == ToolBlock("ghost", <<>>) \o ToolBlock("boom", <<>>)
                 \o ToolBlock("parse_customer_id", <<>>) \o <<W>>

RECURSIVE Repeat(_, _)
Repeat(block, n) == IF n = 0 THEN <<>> ELSE block \o Repeat(block, n - 1)

\* one more tool call than the documented limit per turn
MaxToolCallsPerTurn == 5
RManyTools == Repeat(CallParse, MaxToolCallsPerTurn + 1)

Responses == {RProse, RValid, RWrapped, RMalformed, RMismatch, RPerson, RTool,
              RToolThenJson, RWholeTool, RMixedTools, RManyTools}

(***************************************************************************)
(* Parameter values of the <tool> format.  A raw value is a sequence of    *)
(* lexemes: "sp" a blank, "dq" and "sq" the two quote characters, "num"    *)
(* the digits 42, "true" "TRUE" "false" and "word" letters, "lb" "rb"      *)
(* square brackets and "lc" "rc" curly brackets.  The comma and the colon  *)
(* are not lexemes: an array has at most one element, an object none.      *)
(***************************************************************************)
Lexemes == {"sp", "dq", "sq", "num", "true", "TRUE", "false", "word", "lb", "rb", "lc", "rc"}
MaxValueLen == 3          \* largest number of lexemes in a raw value
RawValues == UNION {[1..n -> Lexemes] : n \in 0..MaxValueLen}

\* String.prototype.trim
RECURSIVE TrimStart(_)
TrimStart(v) == IF v # <<>> /\ v[1] = "sp" THEN TrimStart(Tail(v)) ELSE v
RECURSIVE TrimEnd(_)
TrimEnd(v) ==
    IF v # <<>> /\ v[Len(v)] = "sp" THEN TrimEnd(SubSeq(v, 1, Len(v) - 1)) ELSE v
Trim(v) == TrimEnd(TrimStart(v))

StartsWith(v, c) == v # <<>> /\ v[1] = c
EndsWith(v, c) == v # <<>> /\ v[Len(v)] = c
\* value.slice(1, -1)
Slice1(v) == SubSeq(v, 2, Len(v) - 1)

AllDigits(v) == v # <<>> /\ \A i \in 1..Len(v) : v[i] = "num"

\* the grammar JSON.parse accepts, over the lexemes
RECURSIVE IsJson(_)
IsJson(v) ==
    LET t == Trim(v)
    IN  \/ AllDigits(t)
        \/ t \in {<<"true">>, <<"false">>}
        \/ /\ Len(t) >= 2 /\ t[1] = "dq" /\ t[Len(t)] = "dq"
           /\ \A i \in 2..(Len(t) - 1) : t[i] # "dq"
        \/ /\ Len(t) >= 2 /\ t[1] = "lb" /\ t[Len(t)] = "rb"
           /\ (Trim(Slice1(t)) = <<>> \/ IsJson(Slice1(t)))
        \/ /\ Len(t) >= 2 /\ t[1] = "lc" /\ t[Len(t)] = "rc"
           /\ Trim(Slice1(t)) = <<>>

\* a parameter value: its type and the text that spells it
Value(ty, text) == [ty |-> ty, text |-> text]

\* Number(value) is not NaN: blank text is 0, digits are their number
IsNumber(v) == Trim(v) = <<>> \/ AllDigits(Trim(v))

\* a parseValue that leaves the quotes in place
parseValueKeepsQuotes(value) ==
    LET v == Trim(value)
    IN  IF StartsWith(v, "lb") \/ StartsWith(v, "lc")
        THEN IF IsJson(v)
             THEN Value(IF Trim(v)[1] = "lb" THEN "array" ELSE "object", v)
             ELSE Value("string", v)
        ELSE IF IsNumber(v) THEN Value("number", Trim(v))
        ELSE Value("string", v)

\* AIClient.parseValue, lines 175-201
parseValue(value) ==
    LET t == Trim(value)
        v == IF \/ StartsWith(t, "dq") /\ EndsWith(t, "dq")
                \/ StartsWith(t, "sq") /\ EndsWith(t, "sq")
             THEN Slice1(t) ELSE t
    IN  IF StartsWith(v, "lb") \/ StartsWith(v, "lc")
        THEN IF IsJson(v)
             THEN Value(IF Trim(v)[1] = "lb" THEN "array" ELSE "object", v)
             ELSE Value("string", v)
        ELSE IF IsNumber(v) THEN Value("number", Trim(v))
        ELSE Value("string", v)

(***************************************************************************)
(* Text of the <tool> format, one record per line: "open" <tool>,          *)
(* "name" name: n, "params" parameters:, "pline" key: value, "close"       *)
(* </tool>, "text" prose without a colon, "ws" a blank line.               *)
(***************************************************************************)
Line(k, key, value) == [k |-> k, key |-> key, value |-> value]
OPEN == Line("open", "", <<>>)
CLOSE == Line("close", "", <<>>)
PARAMS == Line("params", "", <<>>)
TEXT == Line("text", "", <<>>)
WS == Line("ws", "", <<>>)
NAME(n) == Line("name", n, <<>>)
PLINE(key, value) == Line("pline", key, value)

\* first position at or after i that holds no blank line
RECURSIVE Skip(_, _)
Skip(s, i) == IF i <= Len(s) /\ s[i].k = "ws" THEN Skip(s, i + 1) ELSE i

Closes(s, b) == {c \in (b + 1)..Len(s) : s[c].k = "close"}

\* <tool>\s*name:\s*([^\n]+)\s*parameters:\s*([\s\S]*?)\s*<\/tool> matches at i
MatchesAt(s, i) ==
    /\ i <= Len(s) /\ s[i].k = "open"
    /\ Skip(s, i + 1) <= Len(s) /\ s[Skip(s, i + 1)].k = "name"
    /\ Skip(s, Skip(s, i + 1) + 1) <= Len(s)
    /\ s[Skip(s, Skip(s, i + 1) + 1)].k = "params"
    /\ Closes(s, Skip(s, Skip(s, i + 1) + 1)) # {}

\* parameters[key] = v, keeping the place of a key already present
SetParam(ps, key, v) ==
    IF \E i \in 1..Len(ps) : ps[i].key = key
    THEN [i \in 1..Len(ps) |-> IF ps[i].key = key THEN [key |-> key, value |-> v] ELSE ps[i]]
    ELSE Append(ps, [key |-> key, value |-> v])

\* lines 160-166: the loop over the lines of the parameter text
RECURSIVE ParamLines(_, _)
ParamLines(group, ps) ==
    IF group = <<>> THEN ps
    ELSE LET l == Head(group)
         IN  ParamLines(Tail(group),
                 IF l.k = "pline" THEN SetParam(ps, l.key, parseValue(l.value))
                 ELSE IF l.k = "name" THEN SetParam(ps, "name", parseValue(<<"word">>))
                 ELSE IF l.k = "params" THEN SetParam(ps, "parameters", parseValue(<<>>))
                 ELSE ps)

\* AIClient.extractToolCalls of the <tool> format, lines 150-173
RECURSIVE extractToolCalls1(_, _)
extractToolCalls1(s, from) ==
    IF {i \in from..Len(s) : MatchesAt(s, i)} = {} THEN <<>>
    ELSE LET i == Min({x \in from..Len(s) : MatchesAt(s, x)})
             b == Skip(s, Skip(s, i + 1) + 1)
             c == Min(Closes(s, b))
         IN  <<[name |-> s[Skip(s, i + 1)].key,
                parameters |-> ParamLines(SubSeq(s, b + 1, c - 1), <<>>)]>>
             \o extractToolCalls1(s, c + 1)

\* String(value) of a parsed value: an array prints its elements
String(v) ==
    IF v.ty = "array" THEN Trim(Slice1(Trim(v.text)))
    ELSE IF v.ty = "object" THEN <<"lb", "word", "sp", "word", "rb">>
    ELSE v.text

\* the raw value matches "?String(value)"?
SpelledAs(raw, v) ==
    raw \in {String(v), <<"dq">> \o String(v), String(v) \o <<"dq">>,
             <<"dq">> \o String(v) \o <<"dq">>}

\* lines 207-213: the expression built for a tool call matches at i up to the
\* position returned, 0 when it does not match
RECURSIVE EntriesEnd(_, _, _)
EntriesEnd(s, j, ps) ==
    IF ps = <<>>
    THEN IF Skip(s, j) <= Len(s) /\ s[Skip(s, j)].k = "close" THEN Skip(s, j) ELSE 0
    ELSE IF /\ Skip(s, j) <= Len(s) /\ s[Skip(s, j)].k = "pline"
            /\ s[Skip(s, j)].key = Head(ps).key
            /\ SpelledAs(s[Skip(s, j)].value, Head(ps).value)
         THEN EntriesEnd(s, Skip(s, j) + 1, Tail(ps))
         ELSE 0

CallEnd(s, i, call) ==
    IF /\ MatchesAt(s, i)
       /\ s[Skip(s, i + 1)].key = call.name
    THEN EntriesEnd(s, Skip(s, Skip(s, i + 1) + 1) + 1, call.parameters)
    ELSE 0

\* remainingText.replace(toolRegex, '')
RECURSIVE Replace(_, _, _)
Replace(s, i, call) ==
    IF i > Len(s) THEN <<>>
    ELSE IF CallEnd(s, i, call) # 0 THEN Replace(s, CallEnd(s, i, call) + 1, call)
    ELSE <<s[i]>> \o Replace(s, i + 1, call)

RECURSIVE ReplaceAll(_, _)
ReplaceAll(s, calls) ==
    IF calls = <<>> THEN s ELSE ReplaceAll(Replace(s, 1, Head(calls)), Tail(calls))

TrimLines(s) ==
    LET keep == {i \in 1..Len(s) : s[i].k # "ws"}
    IN  IF keep = {} THEN <<>>
        ELSE SubSeq(s, Min(keep), CHOOSE j \in keep : \A x \in keep : x <= j)

\* AIClient.parseToolCalls, lines 203-220
parseToolCalls(response) ==
    LET toolCalls == extractToolCalls1(response, 1)
    IN  [toolCalls |-> toolCalls,
         remainingText |-> TrimLines(ReplaceAll(response, toolCalls))]

(***************************************************************************)
(* The system prompt.  Of its text the model keeps the parts that vary:    *)
(* the tools described, the tool-call example blocks, the datetime line,   *)
(* the rule printed for each field of the schema and the example response. *)
(***************************************************************************)
\* ToolParameter.type of the parameters of ToolParameters
ParameterType(tool, param) ==
    IF tool = "calculator" /\ param \in {"a", "b"} THEN "number" ELSE "string"

Described(names) ==
    [i \in 1..Len(names) |->
        [name |-> names[i],
         parameters |-> [j \in 1..Len(ToolParameters(names[i])) |->
                            [name |-> ToolParameters(names[i])[j].name,
                             type |-> ParameterType(names[i], ToolParameters(names[i])[j].name),
                             required |-> ToolParameters(names[i])[j].required]]]]

NoSchema == <<>>
\* what new Date().toISOString() returns on two calls
Clock == {"2024-01-01T00:00:00.000Z", "2024-01-01T00:00:01.000Z"}
NoPrompt ==
    [intro |-> FALSE, described |-> <<>>, examples |-> <<>>, datetime |-> "",
     typeRules |-> <<>>, exampleResponse |-> <<>>]

\* extractFields, lines 686-746, for a schema of required primitive fields
extractFields(schema) ==
    [i \in 1..Len(schema) |->
        [name |-> schema[i].name, type |-> schema[i].ty, required |-> TRUE,
         isNested |-> FALSE]]

\* lines 673-679: the member printed for a field in the example response
ExampleMember(f) ==
    IF f.type = "string" THEN KV(f.name, "string", "example")
    ELSE IF f.type = "number" THEN KV(f.name, "number", "123")
    ELSE IF f.type = "boolean" THEN KV(f.name, "boolean", "true")
    ELSE KV(f.name, "null", "null")

\* lines 620-628: the one example block of the TOOL_CALL format
ToolCallExample ==
    ToolBlock("tool_name", <<KV("param1", "string", "value1"),
                             KV("param2", "string", "value2")>>)

\* AIClient.buildSystemPrompt, lines 600-684; now is what new Date() reads
buildSystemPrompt(names, enableToolUse, responseSchema, now) ==
    LET toolsPrompt == IF enableToolUse /\ names # <<>>
                       THEN [NoPrompt EXCEPT !.described = Described(names),
                                             !.examples = <<ToolCallExample>>]
                       ELSE NoPrompt
        fields == extractFields(responseSchema)
    IN  IF responseSchema = NoSchema THEN toolsPrompt
        ELSE [(IF enableToolUse THEN toolsPrompt ELSE NoPrompt) EXCEPT
                 !.datetime = now,
                 !.typeRules = fields,
                 !.exampleResponse =
                     <<LB>> \o [i \in 1..Len(fields) |-> ExampleMember(fields[i])] \o <<RB>>]

\* lines 60-64: the example block printed for a tool in the <tool> format
ToolExample(tool) ==
    <<OPEN, NAME(tool.name), PARAMS>>
    \o (IF tool.parameters = <<>> THEN <<WS>>
        ELSE [j \in 1..Len(tool.parameters) |->
                 PLINE(tool.parameters[j].name,
                       IF tool.parameters[j].type = "string"
                       THEN <<"dq", "word", "dq">> ELSE <<"word">>)])
    \o <<CLOSE>>

\* lines 81-104: the fields of a schema of required primitive fields
typeNames(schema) ==
    [i \in 1..Len(schema) |->
        [name |-> schema[i].name,
         type |-> IF schema[i].ty = "string" THEN "ZodString" ELSE "ZodNumber",
         required |-> TRUE]]

\* AIClient.buildSystemPrompt of the <tool> format, lines 45-148
buildSystemPrompt1(names, enableToolUse, responseSchema) ==
    LET toolsPrompt == IF enableToolUse /\ names # <<>>
                       THEN [NoPrompt EXCEPT
                                !.described = Described(names),
                                !.examples = [i \in 1..Len(names) |->
                                                 ToolExample(Described(names)[i])]]
                       ELSE NoPrompt
    IN  IF responseSchema = NoSchema THEN toolsPrompt
        ELSE [toolsPrompt EXCEPT !.intro = TRUE,
                                 !.typeRules = typeNames(responseSchema)]

(***************************************************************************)
(* Responses put together from pieces: tool-call blocks, prose and blank   *)
(* lines.  A block of the <tool> format lists its parameters as key and    *)
(* raw value, a block of the TOOL_CALL format as the members of its        *)
(* parameters object.                                                      *)
(***************************************************************************)
MaxPieces == 3            \* largest number of pieces in a response
Piece(kind, name, params) == [kind |-> kind, name |-> name, params |-> params]
Prose == Piece("prose", "", <<>>)
Blank == Piece("blank", "", <<>>)
Raw(key, raw) == [key |-> key, raw |-> raw]

Blocks1 ==
    {Piece("block", "parse_customer_id", <<Raw("customerid", <<"num">>)>>),
     Piece("block", "parse_customer_id", <<Raw("customerid", <<"lb", "num", "rb">>)>>),
     Piece("block", "calculator", <<Raw("a", <<"num">>), Raw("b", <<"num">>),
                                    Raw("operation", <<"dq", "word", "dq">>)>>),
     Piece("block", "boom", <<>>)}
Blocks2 ==
    {Piece("block", "parse_customer_id", <<KV("customerid", "number", "1451")>>),
     Piece("block", "calculator", <<KEY("options"), LB, KV("precision", "number", "2"), RB>>),
     Piece("block", "boom", <<>>)}

PieceLists(pieces) == UNION {[1..n -> pieces] : n \in 0..MaxPieces}

RECURSIVE Concat(_)
Concat(ss) == IF ss = <<>> THEN <<>> ELSE Head(ss) \o Concat(Tail(ss))

\* the text of a response of the <tool> format
Render1(ps) ==
    Concat([i \in 1..Len(ps) |->
        IF ps[i].kind = "prose" THEN <<TEXT>>
        ELSE IF ps[i].kind = "blank" THEN <<WS>>
        ELSE <<OPEN, NAME(ps[i].name), PARAMS>>
             \o [j \in 1..Len(ps[i].params) |->
                    PLINE(ps[i].params[j].key, ps[i].params[j].raw)]
             \o <<CLOSE>>])

\* the text of a response of the TOOL_CALL format
Render2(ps) ==
    Concat([i \in 1..Len(ps) |->
        IF ps[i].kind = "prose" THEN <<W>> ELSE ToolBlock(ps[i].name, ps[i].params)])

NoInput ==
    [fn |-> "none", value |-> <<>>, rendered |-> FALSE, pieces |-> <<>>, text |-> <<>>]
NoOutput == <<>>

(***************************************************************************)
(* Agent: configuration and the decisions of executeWithRetry              *)
(***************************************************************************)
DEFAULT_maxRetries == 3
MaxRetriesArg == 2        \* largest maxRetries a caller passes explicitly
MaxExecCalls == 2         \* execute calls made on the one Agent
MaxAgentTools == 2        \* tools pushed through Agent.addTools

Unset == -1               \* an option the caller left out (undefined)
RetryArgs == {Unset} \cup 0..MaxRetriesArg

\* constructor, line 67: options.maxRetries || DEFAULT_CONFIG.maxRetries
ConstructorMaxRetries(opt) ==
    IF opt = Unset \/ opt = 0 THEN DEFAULT_maxRetries ELSE opt

\* a call that falls back on the default instead of the Agent's maxRetries
CallMaxRetriesDefault(opt, agentMax) == IF opt = Unset THEN DEFAULT_maxRetries ELSE opt

\* executeWithSchema, line 87: options.maxRetries ?? this.maxRetries
CallMaxRetries(opt, agentMax) == IF opt = Unset THEN agentMax ELSE opt

\* what the application passes to the constructor: one that sets maxRetries
\* sets the model and the temperature too
ConstructorOptions ==
    {[maxRetries |-> m,
      modelName |-> IF m = Unset \/ m = 0 THEN "" ELSE "llama3.2:latest",
      temperature |-> IF m = Unset \/ m = 0 THEN "" ELSE "0.8"] : m \in RetryArgs}

\* constructor, lines 59-66: this.config
Constructor(options) ==
    [modelName |-> IF options.modelName = "" THEN "llama3.2:3b" ELSE options.modelName,
     baseUrl |-> "http://localhost:11434",
     temperature |-> IF options.temperature \in {"", "0"} THEN "0.7"
                     ELSE options.temperature,
     maxTokens |-> "2048",
     debug |-> FALSE]

\* what the caller of chat passes: messages and per-call options
Msg(role, content) == [role |-> role, content |-> content]
ChatInputs ==
    {<<>>,
     <<Msg("system", "You are a programming expert."), Msg("user", "What is TypeScript?")>>,
     <<Msg("user", "What is TypeScript?"), Msg("assistant", "A language."),
       Msg("user", "Can you show me an example?")>>}
ChatOptions ==
    {[temperature |-> "", model |-> ""], [temperature |-> "0.2", model |-> ""],
     [temperature |-> "0", model |-> ""], [temperature |-> "", model |-> "mistral"]}

\* a member of the body /api/chat answers with: a string, an object with a
\* content member, or nothing
Str(content) == [kind |-> "string", content |-> content]
MsgObj(content) == [kind |-> "object", content |-> content]
Absent == [kind |-> "absent", content |-> ""]
IsTruthy(v) == v.kind = "object" \/ (v.kind = "string" /\ v.content # "")
ChatData ==
    {[message |-> MsgObj("TypeScript is typed."), response |-> Absent],
     [message |-> Str("TypeScript is typed."), response |-> Absent],
     [message |-> Absent, response |-> Str("It is typed.")],
     [message |-> Absent, response |-> Absent]}

\* Agent.chat, lines 296-301: the request handed to client.chat
ChatRequest(config, messages, options) ==
    [messages |-> messages,
     temperature |-> IF options.temperature \in {"", "0"} THEN config.temperature
                     ELSE options.temperature,
     model |-> IF options.model = "" THEN config.modelName ELSE options.model,
     stream |-> FALSE]

\* AIClient.chat, lines 498-503: text of the AIResponse
AIClient_chat(data) ==
    IF IsTruthy(data.message) THEN data.message
    ELSE IF IsTruthy(data.response) THEN data.response
    ELSE Str("")

\* Agent.chat, lines 304-306
responseText(text) == text.content

\* a chat that pushes the reply onto the array it was given
chatPushes(messages, text) ==
    [messages |-> Append(messages, Msg("assistant", responseText(text))),
     content |-> responseText(text),
     history |-> Append(messages, Msg("assistant", responseText(text)))]

\* Agent.chat, lines 309-315: what the call returns, and the caller's array
\* after it
chatReturns(messages, text) ==
    [messages |-> messages,
     content |-> responseText(text),
     history |-> Append(messages, Msg("assistant", responseText(text)))]

NoChat ==
    [state |-> "none", given |-> <<>>, messages |-> <<>>,
     options |-> [temperature |-> "", model |-> ""],
     sent |-> ChatRequest(Constructor([maxRetries |-> Unset, modelName |-> "",
                                       temperature |-> ""]), <<>>,
                          [temperature |-> "", model |-> ""]),
     content |-> "", history |-> <<>>, error |-> ""]

\* an off-by-one in the budget test: attempt <= maxRetries
CanRetryLax(att, maxR) == att <= maxR

\* lines 147, 163, 187, 208, 222: if (attempt < maxRetries)
CanRetry(att, maxR) == att < maxR

\* execute, lines 250-251: the system prompt followed by the user request
FullPrompt == <<"system", "user">>

\* the reminders of lines 148, 164, 192 and 209/223
Reminders == {"nojson", "badjson", "schema", "error"}

\* lines 148, 164, 192, 209, 223: retryMessage, the prompt plus a reminder
RetryMessage(prompt, reminder) == Append(prompt, reminder)

\* lines 149, 165, 194, 210, 224: the prompt the recursive call is given
RetryPrompt(prompt, reminder) == prompt

NoError == [kind |-> "none", errors |-> <<>>, msg |-> ""]
NoResult ==
    [status |-> "none", response |-> <<>>, hasParsed |-> FALSE, parsedResponse |-> EmptyObj,
     hasError |-> FALSE, validationError |-> NoError, toolCalls |-> <<>>, thrown |-> ""]

\* the raw return that drops the accumulated tool calls
PlainDropsTools(text, tr) ==
    [NoResult EXCEPT !.status = "resolved", !.response = text]

\* the object literals executeWithRetry returns
Plain(text, tr) ==
    [NoResult EXCEPT !.status = "resolved", !.response = text, !.toolCalls = tr]
\* the success return that forgets parsedResponse
SuccessDropsParsed(text, data, tr) ==
    [NoResult EXCEPT !.status = "resolved", !.response = text, !.toolCalls = tr]

Success(text, data, tr) ==
    [NoResult EXCEPT !.status = "resolved", !.response = text, !.hasParsed = TRUE,
                     !.parsedResponse = data, !.toolCalls = tr]
\* the failure return that drops the accumulated tool calls
FailureDropsTools(text, err, tr) ==
    [NoResult EXCEPT !.status = "resolved", !.response = text, !.hasError = TRUE,
                     !.validationError = err]

\* lines 153-157, 168-172, 198-205, 212-218, 227-232: the failure returns
Failure(text, err, tr) ==
    [NoResult EXCEPT !.status = "resolved", !.response = text, !.hasError = TRUE,
                     !.validationError = err, !.toolCalls = tr]
\* execute, line 274: throw new Error(`Execution error: ...`)
Rejected(msg) == [NoResult EXCEPT !.status = "rejected", !.thrown = msg]

\* a validation whose every outcome is followed by another attempt
VerdictAlwaysRetries(retry, reminder, result) ==
    [retry |-> TRUE, reminder |-> reminder, result |-> result]

\* lines 133-205: what follows the tool loop.  retry = TRUE stands for the
\* recursive call, reminder for the text of the retryMessage built before it.
\* The catch of lines 206-219 has no transition: JSON.parse has its own catch
\* and safeParse reports failures in its result instead of throwing.
Verdict(retry, reminder, result) == [retry |-> retry, reminder |-> reminder, result |-> result]

\* a success return that hands back the whole response text
SettleFullText(text, hasSchema, schema, att, maxR, tr) ==
    IF ~hasSchema THEN Verdict(FALSE, "", Plain(text, tr))
    ELSE LET m == jsonMatch(text)
             parsed == JSONparse(m.text)
             validation == safeParse(schema, parsed.obj)
         IN  IF ~m.found
             THEN IF CanRetry(att, maxR) THEN Verdict(TRUE, "nojson", NoResult)
                  ELSE Verdict(FALSE, "",
                           Failure(text, [kind |-> "nojson", errors |-> <<>>, msg |-> ""], tr))
             ELSE IF ~parsed.ok
             THEN IF CanRetry(att, maxR) THEN Verdict(TRUE, "badjson", NoResult)
                  ELSE Verdict(FALSE, "",
                           Failure(text, [kind |-> "badjson", errors |-> <<>>, msg |-> ""], tr))
             ELSE IF validation.success
             THEN Verdict(FALSE, "", Success(text, validation.data, tr))
             ELSE IF CanRetry(att, maxR) THEN Verdict(TRUE, "schema", NoResult)
             ELSE Verdict(FALSE, "",
                      Failure(m.text,
                          [kind |-> "schema", errors |-> validation.errors, msg |-> ""], tr))

\* lines 144, 160 and 176 for every response the model can return and every
\* schema a call can carry: the match, the parse of the match and the
\* validation of the parsed value, computed once
Examined ==
    [sc \in {customerSchema, personSchema} |->
        [r \in Responses |->
            LET m == jsonMatch(r)
                parsed == JSONparse(m.text)
            IN  [m |-> m, parsed |-> parsed, validation |-> safeParse(sc, parsed.obj)]]]

\* lines 133-205, as described above
Settle(text, hasSchema, schema, att, maxR, tr) ==
    IF ~hasSchema THEN Verdict(FALSE, "", Plain(text, tr))
    ELSE LET m == Examined[schema][text].m
             parsed == Examined[schema][text].parsed
             validation == Examined[schema][text].validation
         IN  IF ~m.found
             THEN IF CanRetry(att, maxR) THEN Verdict(TRUE, "nojson", NoResult)
                  ELSE Verdict(FALSE, "",
                           Failure(text, [kind |-> "nojson", errors |-> <<>>, msg |-> ""], tr))
             ELSE IF ~parsed.ok
             THEN IF CanRetry(att, maxR) THEN Verdict(TRUE, "badjson", NoResult)
                  ELSE Verdict(FALSE, "",
                           Failure(text, [kind |-> "badjson", errors |-> <<>>, msg |-> ""], tr))
             ELSE IF validation.success
             THEN Verdict(FALSE, "", Success(m.text, validation.data, tr))
             ELSE IF CanRetry(att, maxR) THEN Verdict(TRUE, "schema", NoResult)
             ELSE Verdict(FALSE, "",
                      Failure(m.text,
                          [kind |-> "schema", errors |-> validation.errors, msg |-> ""], tr))

\* a catch block that gives up at the first failure
OnGenerateErrorNoRetry(msg, att, maxR, tr) ==
    Verdict(FALSE, "",
        Failure(<<>>, [kind |-> "message", errors |-> <<>>, msg |-> msg], tr))

\* a catch block that rethrows once the budget is spent
OnGenerateErrorThrows(msg, att, maxR, tr) ==
    IF att < maxR THEN Verdict(TRUE, "error", NoResult)
    ELSE Verdict(FALSE, "", Rejected(msg))

\* lines 220-233: the generation call threw
OnGenerateError(msg, att, maxR, tr) ==
    IF CanRetry(att, maxR) THEN Verdict(TRUE, "error", NoResult)
    ELSE Verdict(FALSE, "",
             Failure(<<>>, [kind |-> "message", errors |-> <<>>, msg |-> msg], tr))

\* a conversion that lists the calls last to first
convertToolCallsToResultsReversed(calls) ==
    [i \in 1..Len(calls) |->
        [name |-> calls[Len(calls) + 1 - i].name, tool |-> calls[Len(calls) + 1 - i].name,
         ptype |-> calls[Len(calls) + 1 - i].ptype,
         parameters |-> calls[Len(calls) + 1 - i].parameters,
         result |-> ToolResult(FALSE, "pending", "", <<>>)]]

\* lines 98-106: convertToolCallsToResults
NoToolResult == ToolResult(FALSE, "pending", "", <<>>)
convertToolCallsToResults(calls) ==
    [i \in 1..Len(calls) |->
        [name |-> calls[i].name, tool |-> calls[i].name, ptype |-> calls[i].ptype,
         parameters |-> calls[i].parameters, result |-> NoToolResult]]

(***************************************************************************)
(* State                                                                   *)
(***************************************************************************)
VARIABLES
    agentMaxRetries,  \* Agent.maxRetries
    agentTools,       \* Agent.tools
    registry,         \* ToolManager.tools of the Agent's client, in insertion order
    pc,               \* "idle", "generating" (awaiting client.generate),
                      \* "dispatch" (awaiting client.executeTool), "done";
                      \* "prompting", "prompted", "chatting", "chatted" for
                      \* a prompt and a chat call awaited and settled
    cur,              \* the arguments of the running executeWithRetry frame
    resp,             \* response.text of the current attempt
    pending,          \* newToolResults of the current attempt
    idx,              \* position of the for loop over newToolResults
    result,           \* what the promise returned by execute settled with
    nExec,            \* execute calls started on this Agent
    genCalls,         \* client.generate calls made by the current execute call
    genFails,         \* ... of which rejected
    sentPrompts,      \* the prompt given to each of them, in order
    onlyNoJson,       \* every response so far held no { ... } span
    firstValid,       \* attempt whose response was the first to validate, or 0
    toolExecs,        \* client.executeTool calls made in the current attempt
    clientTools,      \* ToolManager.tools of a client the application drives itself
    lastOp,           \* the last call made on that client, and how it ended
    prevOp,           \* the call before it, in brief
    addLog,           \* the tools addTool accepted, in order, while none was removed
    agentConfig,      \* Agent.config
    chat,             \* the Agent.chat call in progress, or NoChat
    fnIn,             \* the parser or builder method last called, with its arguments
    fnOut,            \* what it returned
    frames            \* the executeWithRetry frames of execute calls made without
                      \* awaiting one another, by call

agentVars == <<agentMaxRetries, agentTools, registry, pc, cur, resp, pending, idx, result,
               nExec, genCalls, genFails, sentPrompts, onlyNoJson, firstValid, toolExecs>>
clientVars == <<clientTools, lastOp, prevOp, addLog>>
chatVars == <<agentConfig, chat>>
parserVars == <<fnIn, fnOut>>
callVars == <<frames>>
vars == <<agentVars, clientVars, chatVars, parserVars, callVars>>

Schemas == {customerSchema, personSchema}
ToolLists == {<<>>} \cup {<<t>> : t \in ToolNames}
GenerateErrors == {"API request failed with status 500"}
ChatErrors == {"Chat request failed: HTTP error! status: 500"}

NoCall == [hasSchema |-> FALSE, schema |-> <<>>, maxRetries |-> 0, prompt |-> <<>>,
           attempt |-> 0, toolResults |-> <<>>]

IsValidFor(schema, text) ==
    /\ jsonMatch(text).found
    /\ JSONparse(jsonMatch(text).text).ok
    /\ safeParse(schema, JSONparse(jsonMatch(text).text).obj).success

\* extractToolCalls and the validity of every possible response, computed once
ToolCallsOf == [r \in Responses |-> extractToolCalls(r)]
ValidFor == [sc \in Schemas |-> [r \in Responses |-> IsValidFor(sc, r)]]

\* AIClient.generate, lines 418-426, once generateRaw resolved with text raw:
\* invoked lists the tool.execute calls it makes
generateRunsTools(raw, options) ==
    [text |-> raw, toolCalls |-> ToolCallsOf[raw], invoked |-> ToolCallsOf[raw]]

generate(raw, options) ==
    [text |-> raw, toolCalls |-> ToolCallsOf[raw], invoked |-> <<>>]

\* what the application hands to a client it drives itself
MaxToolCallsArg == 2      \* largest maxToolCalls a caller passes
ToolCallArgs == {Unset} \cup 1..MaxToolCallsArg

NoTool == [name |-> "", rev |-> 0]
ClientTools ==
    {[name |-> n, rev |-> 1] : n \in ClientToolNames} \cup {[name |-> "boom", rev |-> 2]}
ClientNames == ClientToolNames \cup {"ghost"}

Obj(members) == JSONparse(<<LB>> \o members \o <<RB>>).obj
Call(name, members) == [name |-> name, ptype |-> "object", parameters |-> Obj(members)]
ClientCalls ==
    {Call("ghost", <<>>),
     Call("boom", <<>>),
     Call("parse_customer_id", <<>>),
     Call("parse_customer_id", <<KV("customerid", "number", "1451")>>),
     Call("calculator", <<KV("a", "number", "1"), KV("b", "number", "2"),
                          KV("operation", "string", "add")>>),
     Call("calculator", <<KV("a", "number", "1"), KV("b", "number", "2"),
                          KV("operation", "string", "pow")>>),
     Call("calculator", <<KV("b", "number", "2")>>)}

\* what generateRaw may resolve with on that client
ClientResponses == {RProse, RTool, RToolThenJson, RMixedTools}

NoOp ==
    [op |-> "none", state |-> "returned", name |-> "", tool |-> NoTool,
     parameters |-> EmptyObj, threw |-> FALSE, error |-> NoErr, before |-> <<>>,
     listed |-> <<>>, result |-> NoToolResult, invoked |-> <<>>,
     enableToolUse |-> FALSE, maxToolCalls |-> Unset, generations |-> 0,
     raw |-> <<>>, text |-> <<>>, toolCalls |-> <<>>,
     responseSchema |-> NoSchema, prompt |-> NoPrompt]
\* of the call before the last one only an accepted addTool and a
\* buildSystemPrompt are kept
Brief(o) ==
    IF o.op = "addTool" /\ ~o.threw
    THEN [op |-> o.op, name |-> o.name, before |-> o.before, enableToolUse |-> FALSE,
          responseSchema |-> NoSchema, prompt |-> NoPrompt]
    ELSE IF o.op = "buildSystemPrompt"
    THEN [op |-> o.op, name |-> "", before |-> o.before,
          enableToolUse |-> o.enableToolUse, responseSchema |-> o.responseSchema,
          prompt |-> o.prompt]
    ELSE [op |-> "other", name |-> "", before |-> <<>>, enableToolUse |-> FALSE,
          responseSchema |-> NoSchema, prompt |-> NoPrompt]

\* One frame of executeWithRetry with what its parameters and locals hold
\* (lines 108-131): seen lists the tool calls extracted from the responses
\* this frame received, tools is the per-call tools option of its execute.
CallIds == {1, 2}
IdleCall ==
    [pc |-> "idle", hasSchema |-> FALSE, schema |-> <<>>, maxRetries |-> 0, tools |-> <<>>,
     attempt |-> 0, toolResults |-> <<>>, resp |-> <<>>, pending |-> <<>>, idx |-> 0,
     result |-> NoResult, genCalls |-> 0, seen |-> <<>>]

Init ==
    /\ \E o \in ConstructorOptions :
           /\ agentMaxRetries = ConstructorMaxRetries(o.maxRetries)
           /\ agentConfig = Constructor(o)
    /\ chat = NoChat
    /\ fnIn = NoInput
    /\ fnOut = NoOutput
    /\ frames = [c \in CallIds |-> IdleCall]
    /\ agentTools = <<>>
    /\ registry = <<>>
    /\ pc = "idle"
    /\ cur = NoCall
    /\ resp = <<>>
    /\ pending = <<>>
    /\ idx = 0
    /\ result = NoResult
    /\ nExec = 0
    /\ genCalls = 0
    /\ genFails = 0
    /\ sentPrompts = <<>>
    /\ onlyNoJson = TRUE
    /\ firstValid = 0
    /\ toolExecs = 0
    /\ clientTools = <<>>
    /\ lastOp = NoOp
    /\ prevOp = Brief(NoOp)
    /\ addLog = [pure |-> TRUE, tools |-> <<>>]

\* Agent.addTools, lines 71-73
AddTools(ts) ==
    /\ pc = "idle"
    /\ Len(agentTools) + Len(ts) <= MaxAgentTools
    /\ agentTools' = agentTools \o ts
    /\ UNCHANGED <<agentMaxRetries, registry, pc, cur, resp, pending, idx, result, nExec,
                   genCalls, genFails, sentPrompts, onlyNoJson, firstValid, toolExecs,
                   clientVars, chatVars, parserVars, callVars>>

\* Agent.execute, lines 236-276, up to the await of the first client.generate
Execute(hasSchema, schema, tools, maxR) ==
    /\ pc = "idle"
    /\ nExec < MaxExecCalls
    /\ nExec' = nExec + 1
    /\ LET reg == RegisterAll(registry, agentTools \o tools, 1)
       IN  /\ registry' = reg.reg
           /\ IF reg.ok
              THEN /\ pc' = "generating"
                   /\ cur' = [hasSchema |-> hasSchema, schema |-> schema, maxRetries |-> maxR,
                              prompt |-> FullPrompt, attempt |-> 1, toolResults |-> <<>>]
                   /\ result' = NoResult
                   /\ genCalls' = 1
                   /\ sentPrompts' = <<FullPrompt>>
              ELSE /\ pc' = "done"
                   /\ cur' = NoCall
                   /\ result' = Rejected(reg.dup)
                   /\ genCalls' = 0
                   /\ sentPrompts' = <<>>
    /\ resp' = <<>>
    /\ pending' = <<>>
    /\ idx' = 0
    /\ genFails' = 0
    /\ onlyNoJson' = TRUE
    /\ firstValid' = 0
    /\ toolExecs' = 0
    /\ UNCHANGED <<agentMaxRetries, agentTools, clientVars, chatVars, parserVars, callVars>>

\* Agent.executeWithSchema, lines 80-89
ExecuteWithSchema(schema, tools, opt) ==
    Execute(TRUE, schema, tools, CallMaxRetries(opt, agentMaxRetries))

\* Agent.executeRaw, lines 92-96
ExecuteRaw(tools) == Execute(FALSE, <<>>, tools, agentMaxRetries)

\* a recursive call that passes its own attempt number on
NextAttemptSame(attempt) == attempt

\* a recursive call that counts a retry twice
NextAttemptSkips(attempt) == attempt + 2

\* lines 149, 165, 194, 210, 224: the attempt argument of the recursive call
NextAttempt(attempt) == attempt + 1

\* the return statements and the recursive calls of executeWithRetry
Proceed(v, tr) ==
    IF v.retry
    THEN /\ pc' = "generating"
         /\ cur' = [cur EXCEPT !.attempt = NextAttempt(cur.attempt), !.toolResults = tr,
                               !.prompt = RetryPrompt(cur.prompt, v.reminder)]
         /\ genCalls' = genCalls + 1
         /\ sentPrompts' = Append(sentPrompts, RetryPrompt(cur.prompt, v.reminder))
         /\ result' = result
    ELSE /\ pc' = "done"
         /\ cur' = [cur EXCEPT !.toolResults = tr]
         /\ genCalls' = genCalls
         /\ sentPrompts' = sentPrompts
         /\ result' = v.result

\* client.generate resolved with text r (lines 117-131, then 133-205 when the
\* response holds no tool call)
GenerateResolves(r) ==
    /\ pc = "generating"
    /\ resp' = r
    /\ onlyNoJson' = (onlyNoJson /\ ~jsonMatch(r).found)
    /\ firstValid' = IF firstValid = 0 /\ cur.hasSchema /\ ValidFor[cur.schema][r]
                     THEN cur.attempt ELSE firstValid
    /\ toolExecs' = 0
    /\ LET calls == convertToolCallsToResults(ToolCallsOf[r])
       IN  /\ pending' = calls
           /\ IF calls # <<>>
              THEN /\ idx' = 1
                   /\ pc' = "dispatch"
                   /\ UNCHANGED <<cur, genCalls, sentPrompts, result>>
              ELSE /\ idx' = 0
                   /\ Proceed(Settle(r, cur.hasSchema, cur.schema, cur.attempt,
                                     cur.maxRetries, cur.toolResults), cur.toolResults)
    /\ UNCHANGED <<agentMaxRetries, agentTools, registry, nExec, genFails, clientVars, chatVars,
                   parserVars, callVars>>

\* client.generate rejected (lines 220-233)
GenerateRejects(msg) ==
    /\ pc = "generating"
    /\ genFails' = genFails + 1
    /\ Proceed(OnGenerateError(msg, cur.attempt, cur.maxRetries, cur.toolResults),
               cur.toolResults)
    /\ UNCHANGED <<agentMaxRetries, agentTools, registry, resp, pending, idx, nExec,
                   onlyNoJson, firstValid, toolExecs, clientVars, chatVars, parserVars, callVars>>

\* client.executeTool resolved for newToolResults[idx] (lines 126-131, then
\* 133-205 after the last one)
ToolResolves ==
    /\ pc = "dispatch"
    /\ LET done == [pending EXCEPT ![idx].result = executeTool(registry, pending[idx])]
       IN  /\ pending' = done
           /\ toolExecs' = toolExecs + 1
           /\ IF idx < Len(pending)
              THEN /\ idx' = idx + 1
                   /\ UNCHANGED <<pc, cur, genCalls, sentPrompts, result>>
              ELSE /\ idx' = 0
                   /\ Proceed(Settle(resp, cur.hasSchema, cur.schema, cur.attempt,
                                     cur.maxRetries, cur.toolResults \o done),
                              cur.toolResults \o done)
    /\ UNCHANGED <<agentMaxRetries, agentTools, registry, resp, nExec, genFails,
                   onlyNoJson, firstValid, clientVars, chatVars, parserVars, callVars>>

\* the caller's await of execute returns: nothing of the call outlives it
\* but the tools it registered
Return ==
    /\ pc = "done"
    /\ pc' = "idle"
    /\ cur' = NoCall
    /\ resp' = <<>>
    /\ pending' = <<>>
    /\ idx' = 0
    /\ result' = NoResult
    /\ genCalls' = 0
    /\ genFails' = 0
    /\ sentPrompts' = <<>>
    /\ onlyNoJson' = TRUE
    /\ firstValid' = 0
    /\ toolExecs' = 0
    /\ UNCHANGED <<agentMaxRetries, agentTools, registry, nExec, clientVars, chatVars,
                   parserVars, callVars>>

\* Agent.prompt, lines 283-285, up to the await of client.generate
Prompt ==
    /\ pc = "idle"
    /\ pc' = "prompting"
    /\ UNCHANGED <<resp, result>>
    /\ UNCHANGED <<agentMaxRetries, agentTools, registry, cur, pending, idx, nExec, genCalls,
                   genFails, sentPrompts, onlyNoJson, firstValid, toolExecs, clientVars,
                   chatVars, parserVars, callVars>>

\* client.generate(prompt, {enableToolUse: false}) resolved with text r:
\* prompt returns response.text (line 286)
PromptResolves(r) ==
    /\ pc = "prompting"
    /\ pc' = "prompted"
    /\ resp' = r
    /\ result' = [NoResult EXCEPT !.status = "resolved",
                                  !.response = generate(r, [enableToolUse |-> FALSE,
                                                            maxToolCalls |-> Unset]).text]
    /\ UNCHANGED <<agentMaxRetries, agentTools, registry, cur, pending, idx, nExec, genCalls,
                   genFails, sentPrompts, onlyNoJson, firstValid, toolExecs, clientVars,
                   chatVars, parserVars, callVars>>

\* client.generate rejected: prompt throws Execution error (lines 287-289)
PromptRejects(msg) ==
    /\ pc = "prompting"
    /\ pc' = "prompted"
    /\ resp' = resp
    /\ result' = Rejected(msg)
    /\ UNCHANGED <<agentMaxRetries, agentTools, registry, cur, pending, idx, nExec, genCalls,
                   genFails, sentPrompts, onlyNoJson, firstValid, toolExecs, clientVars,
                   chatVars, parserVars, callVars>>

\* the caller's await of prompt returns
PromptDone ==
    /\ pc = "prompted"
    /\ pc' = "idle"
    /\ resp' = <<>>
    /\ result' = NoResult
    /\ UNCHANGED <<agentMaxRetries, agentTools, registry, cur, pending, idx, nExec, genCalls,
                   genFails, sentPrompts, onlyNoJson, firstValid, toolExecs, clientVars,
                   chatVars, parserVars, callVars>>

\* Agent.chat, lines 292-301, up to the await of client.chat
Chat(messages, options) ==
    /\ pc = "idle"
    /\ pc' = "chatting"
    /\ chat' = [NoChat EXCEPT !.state = "awaiting", !.given = messages,
                              !.messages = messages, !.options = options,
                              !.sent = ChatRequest(agentConfig, messages, options)]
    /\ UNCHANGED <<agentMaxRetries, agentTools, registry, cur, resp, pending, idx, result,
                   nExec, genCalls, genFails, sentPrompts, onlyNoJson, firstValid,
                   toolExecs, agentConfig, clientVars, parserVars, callVars>>

\* /api/chat answered with data: AIClient.chat lines 498-509, Agent.chat 303-315
ChatResolves(data) ==
    /\ pc = "chatting"
    /\ pc' = "chatted"
    /\ LET r == chatReturns(chat.messages, AIClient_chat(data))
       IN  chat' = [chat EXCEPT !.state = "returned", !.messages = r.messages,
                                !.content = r.content, !.history = r.history]
    /\ UNCHANGED <<agentMaxRetries, agentTools, registry, cur, resp, pending, idx, result,
                   nExec, genCalls, genFails, sentPrompts, onlyNoJson, firstValid,
                   toolExecs, agentConfig, clientVars, parserVars, callVars>>

\* the request failed: AIClient.chat throws at lines 510-515 and Agent.chat,
\* which catches nothing, rejects with that error
ChatRejects(msg) ==
    /\ pc = "chatting"
    /\ pc' = "chatted"
    /\ chat' = [chat EXCEPT !.state = "rejected", !.error = msg]
    /\ UNCHANGED <<agentMaxRetries, agentTools, registry, cur, resp, pending, idx, result,
                   nExec, genCalls, genFails, sentPrompts, onlyNoJson, firstValid,
                   toolExecs, agentConfig, clientVars, parserVars, callVars>>

\* the caller's await of chat returns: the Agent keeps nothing of the call
ChatDone ==
    /\ pc = "chatted"
    /\ pc' = "idle"
    /\ chat' = NoChat
    /\ UNCHANGED <<agentMaxRetries, agentTools, registry, cur, resp, pending, idx, result,
                   nExec, genCalls, genFails, sentPrompts, onlyNoJson, firstValid,
                   toolExecs, agentConfig, clientVars, parserVars, callVars>>

Next ==
    \/ \E ts \in ToolLists \ {<<>>} : AddTools(ts)
    \/ \E sc \in Schemas, ts \in ToolLists, opt \in RetryArgs : ExecuteWithSchema(sc, ts, opt)
    \/ \E ts \in ToolLists : ExecuteRaw(ts)
    \/ \E r \in Responses : GenerateResolves(r)
    \/ \E msg \in GenerateErrors : GenerateRejects(msg)
    \/ ToolResolves
    \/ Return
    \/ Prompt
    \/ \E r \in Responses : PromptResolves(r)
    \/ \E msg \in GenerateErrors : PromptRejects(msg)
    \/ PromptDone
    \/ \E ms \in ChatInputs, o \in ChatOptions : Chat(ms, o)
    \/ \E d \in ChatData : ChatResolves(d)
    \/ \E msg \in ChatErrors : ChatRejects(msg)
    \/ ChatDone

Spec == Init /\ [][Next]_vars

\* the Agent of the other specifications stays as constructed by default
ClientInit == Init /\ agentMaxRetries = DEFAULT_maxRetries

\* The execute calls alone, under the assumption that every awaited
\* operation settles: client.generate resolves or rejects (line 117) and
\* client.executeTool resolves (line 126; it catches what the tool throws).
\* The caller may or may not make another call, so Execute and Return carry
\* no fairness condition.
ExecNext ==
    \/ \E sc \in Schemas, ts \in ToolLists, opt \in RetryArgs : ExecuteWithSchema(sc, ts, opt)
    \/ \E ts \in ToolLists : ExecuteRaw(ts)
    \/ \E r \in Responses : GenerateResolves(r)
    \/ \E msg \in GenerateErrors : GenerateRejects(msg)
    \/ ToolResolves
    \/ Return

GenerateSettles ==
    \/ \E r \in Responses : GenerateResolves(r)
    \/ \E msg \in GenerateErrors : GenerateRejects(msg)

FairSpec ==
    /\ Init /\ [][ExecNext]_vars
    /\ WF_vars(GenerateSettles)
    /\ WF_vars(ToolResolves)

(***************************************************************************)
(* Execute calls made on one Agent without awaiting one another.  Each     *)
(* call runs the code of execute and executeWithRetry on its own frame;    *)
(* the frames share the Agent's client and so its registry.  A frame is    *)
(* suspended at await client.generate (line 117) and at each await         *)
(* client.executeTool (line 126), and any other frame, or the application, *)
(* may run in between.                                                     *)
(***************************************************************************)
\* the maxRetries the calls of this specification pass: one without a
\* retry, one with
PairBudgets == {1, 2}

\* the responses the model returns in this specification
PairResponses == {RValid, RTool, RMixedTools}

\* execute, lines 244-272: the frame of the first executeWithRetry call, or
\* the rejection when a registration threw
Started(cs, c, hasSchema, schema, tools, maxR, reg) ==
    [cs EXCEPT ![c] =
        IF reg.ok
        THEN [IdleCall EXCEPT !.pc = "generating", !.hasSchema = hasSchema,
                              !.schema = schema, !.maxRetries = maxR, !.tools = tools,
                              !.attempt = 1, !.genCalls = 1]
        ELSE [IdleCall EXCEPT !.pc = "done", !.tools = tools, !.result = Rejected(reg.dup)]]

\* an attempt counter kept on the Agent instead of in the frame
ProceededSharedCounter(cs, c, v, tr) ==
    IF v.retry
    THEN [d \in DOMAIN cs |->
            IF d = c
            THEN [cs[c] EXCEPT !.pc = "generating", !.attempt = cs[c].attempt + 1,
                               !.toolResults = tr, !.genCalls = cs[c].genCalls + 1]
            ELSE [cs[d] EXCEPT !.attempt = cs[d].attempt + 1]]
    ELSE [cs EXCEPT ![c] = [cs[c] EXCEPT !.pc = "done", !.toolResults = tr,
                                         !.result = v.result]]

\* the return statements and the recursive calls of executeWithRetry, on
\* the frame of call c: attempt and toolResults are parameters of the frame
Proceeded(cs, c, v, tr) ==
    IF v.retry
    THEN [cs EXCEPT ![c] = [cs[c] EXCEPT !.pc = "generating",
                                         !.attempt = NextAttempt(cs[c].attempt),
                                         !.toolResults = tr,
                                         !.genCalls = cs[c].genCalls + 1]]
    ELSE [cs EXCEPT ![c] = [cs[c] EXCEPT !.pc = "done", !.toolResults = tr,
                                         !.result = v.result]]

\* Agent.execute of call c, lines 236-276, up to its first await
CallExecute(c, hasSchema, schema, tools, maxR) ==
    /\ frames[c].pc = "idle"
    /\ LET reg == RegisterAll(registry, agentTools \o tools, 1)
       IN  /\ registry' = reg.reg
           /\ frames' = Started(frames, c, hasSchema, schema, tools, maxR, reg)
    /\ UNCHANGED <<agentMaxRetries, agentTools, pc, cur, resp, pending, idx, result, nExec,
                   genCalls, genFails, sentPrompts, onlyNoJson, firstValid, toolExecs,
                   clientVars, chatVars, parserVars>>

\* Agent.executeWithSchema of call c, lines 80-89
CallExecuteWithSchema(c, schema, tools, opt) ==
    CallExecute(c, TRUE, schema, tools, CallMaxRetries(opt, agentMaxRetries))

\* client.generate of call c resolved with text r (lines 117-131, then
\* 133-205 when the response holds no tool call)
CallGenerateResolves(c, r) ==
    /\ frames[c].pc = "generating"
    /\ LET f == frames[c]
           found == convertToolCallsToResults(ToolCallsOf[r])
           g == [f EXCEPT !.resp = r, !.pending = found, !.seen = f.seen \o ToolCallsOf[r]]
       IN  frames' = IF found # <<>>
                    THEN [frames EXCEPT ![c] = [g EXCEPT !.pc = "dispatch", !.idx = 1]]
                    ELSE Proceeded([frames EXCEPT ![c] = g], c,
                                   Settle(r, f.hasSchema, f.schema, f.attempt, f.maxRetries,
                                          f.toolResults),
                                   f.toolResults)
    /\ UNCHANGED <<agentVars, clientVars, chatVars, parserVars>>

\* client.generate of call c rejected (lines 220-233)
CallGenerateRejects(c, msg) ==
    /\ frames[c].pc = "generating"
    /\ LET f == frames[c]
       IN  frames' = Proceeded(frames, c,
                              OnGenerateError(msg, f.attempt, f.maxRetries, f.toolResults),
                              f.toolResults)
    /\ UNCHANGED <<agentVars, clientVars, chatVars, parserVars>>

\* client.executeTool of call c resolved (lines 126-131, then 133-205 after
\* the last one): the lookup is made in the registry as it is now
CallToolResolves(c) ==
    /\ frames[c].pc = "dispatch"
    /\ LET f == frames[c]
           done == [f.pending EXCEPT ![f.idx].result = executeTool(registry, f.pending[f.idx])]
       IN  frames' = IF f.idx < Len(f.pending)
                    THEN [frames EXCEPT ![c] = [f EXCEPT !.pending = done, !.idx = f.idx + 1]]
                    ELSE Proceeded([frames EXCEPT ![c] = [f EXCEPT !.pending = done, !.idx = 0]],
                                   c,
                                   Settle(f.resp, f.hasSchema, f.schema, f.attempt,
                                          f.maxRetries, f.toolResults \o done),
                                   f.toolResults \o done)
    /\ UNCHANGED <<agentVars, clientVars, chatVars, parserVars>>

\* AIClient.removeTool on the Agent's client while a call is in progress
\* (ToolManager.removeTool, lines 17-22, of a name the registry holds)
RegistryRemove(name) ==
    /\ InSeq(name, registry)
    /\ \E c \in CallIds : frames[c].pc \in {"generating", "dispatch"}
    /\ registry' = SelectSeq(registry, LAMBDA n : n # name)
    /\ UNCHANGED <<agentMaxRetries, agentTools, pc, cur, resp, pending, idx, result, nExec,
                   genCalls, genFails, sentPrompts, onlyNoJson, firstValid, toolExecs,
                   clientVars, chatVars, parserVars, callVars>>

PairNext ==
    \/ \E c \in CallIds, ts \in ToolLists, opt \in PairBudgets :
           CallExecuteWithSchema(c, customerSchema, ts, opt)
    \/ \E c \in CallIds, r \in PairResponses : CallGenerateResolves(c, r)
    \/ \E c \in CallIds, msg \in GenerateErrors : CallGenerateRejects(c, msg)
    \/ \E c \in CallIds : CallToolResolves(c)
    \/ \E name \in ToolNames : RegistryRemove(name)

PairSpec == ClientInit /\ [][PairNext]_vars

(***************************************************************************)
(* An AIClient the application drives itself: addTool, removeTool and      *)
(* listTools (lines 555-565, each a call of the ToolManager method), the   *)
(* three executeTool, and generate.  The application awaits each call      *)
(* before it makes the next one.                                           *)
(***************************************************************************)
Awaited == lastOp.state # "awaiting"

\* AIClient.addTool, lines 555-557
AddTool(tool) ==
    /\ Awaited
    /\ LET r == ToolManager_addTool(clientTools, tool)
       IN  /\ clientTools' = r.tools
           /\ lastOp' = [NoOp EXCEPT !.op = "addTool", !.name = tool.name, !.tool = tool,
                                     !.threw = r.threw, !.error = r.error,
                                     !.before = clientTools]
           /\ addLog' = IF r.threw \/ ~addLog.pure THEN addLog
                        ELSE [addLog EXCEPT !.tools = Append(@, tool)]
    /\ prevOp' = Brief(lastOp)
    /\ UNCHANGED <<agentVars, chatVars, parserVars, callVars>>

\* AIClient.removeTool, lines 559-561
RemoveTool(toolName) ==
    /\ Awaited
    /\ LET r == ToolManager_removeTool(clientTools, toolName)
       IN  /\ clientTools' = r.tools
           /\ lastOp' = [NoOp EXCEPT !.op = "removeTool", !.name = toolName,
                                     !.threw = r.threw, !.error = r.error,
                                     !.before = clientTools]
           /\ addLog' = IF r.threw THEN addLog ELSE [pure |-> FALSE, tools |-> <<>>]
    /\ prevOp' = Brief(lastOp)
    /\ UNCHANGED <<agentVars, chatVars, parserVars, callVars>>

\* AIClient.listTools, lines 563-565
ListTools ==
    /\ Awaited
    /\ lastOp' = [NoOp EXCEPT !.op = "listTools", !.before = clientTools,
                              !.listed = ToolManager_listTools(clientTools)]
    /\ prevOp' = Brief(lastOp)
    /\ UNCHANGED <<agentVars, chatVars, parserVars, callVars, clientTools, addLog>>

\* one executeTool call, from the call to the settling of its promise
Executed(op, call, r) ==
    /\ Awaited
    /\ lastOp' = [NoOp EXCEPT !.op = op, !.name = call.name,
                              !.parameters = call.parameters, !.before = clientTools,
                              !.result = r,
                              !.invoked = IF Ran(r) THEN <<call>> ELSE <<>>]
    /\ prevOp' = Brief(lastOp)
    /\ UNCHANGED <<agentVars, chatVars, parserVars, callVars, clientTools, addLog>>

\* ToolManager.executeTool, lines 28-59
ManagerExecuteTool(call) ==
    Executed("ToolManager.executeTool", call,
             ToolManager_executeTool(Names(clientTools), call))

\* AIClient.executeTool, lines 518-553
ClientExecuteTool(call) ==
    Executed("AIClient.executeTool", call, executeTool(Names(clientTools), call))

\* AIClient.executeTool, lines 312-343
FirstClientExecuteTool(call) ==
    Executed("AIClient.executeTool.first", call,
             executeToolFirst(Names(clientTools), call))

\* AIClient.generate, line 419, up to the await of generateRaw
Generate(enableToolUse, maxToolCalls) ==
    /\ Awaited
    /\ lastOp' = [NoOp EXCEPT !.op = "generate", !.state = "awaiting",
                              !.enableToolUse = enableToolUse,
                              !.maxToolCalls = maxToolCalls,
                              !.before = clientTools, !.generations = 1]
    /\ prevOp' = Brief(lastOp)
    /\ UNCHANGED <<agentVars, chatVars, parserVars, callVars, clientTools, addLog>>

\* generateRaw resolved with text r: lines 420-425
GenerateRawResolves(r) ==
    /\ lastOp.op = "generate" /\ lastOp.state = "awaiting"
    /\ LET g == generate(r, [enableToolUse |-> lastOp.enableToolUse,
                             maxToolCalls |-> lastOp.maxToolCalls])
       IN  lastOp' = [lastOp EXCEPT !.state = "returned", !.raw = r, !.text = g.text,
                                    !.toolCalls = g.toolCalls, !.invoked = g.invoked]
    /\ UNCHANGED <<agentVars, chatVars, parserVars, callVars, clientTools, prevOp, addLog>>

\* generateRaw rejected (line 448): generate rejects with the same error
GenerateRawRejects(msg) ==
    /\ lastOp.op = "generate" /\ lastOp.state = "awaiting"
    /\ lastOp' = [lastOp EXCEPT !.state = "returned", !.threw = TRUE,
                                !.error = [kind |-> "api", name |-> msg]]
    /\ UNCHANGED <<agentVars, chatVars, parserVars, callVars, clientTools, prevOp, addLog>>

\* one buildSystemPrompt call
Built(op, enableToolUse, responseSchema, prompt) ==
    /\ Awaited
    /\ lastOp' = [NoOp EXCEPT !.op = op, !.enableToolUse = enableToolUse,
                              !.responseSchema = responseSchema,
                              !.before = clientTools, !.prompt = prompt]
    /\ prevOp' = Brief(lastOp)
    /\ UNCHANGED <<agentVars, chatVars, parserVars, callVars, clientTools, addLog>>

\* AIClient.buildSystemPrompt, lines 600-684, called when the clock reads now
BuildSystemPrompt(enableToolUse, responseSchema, now) ==
    Built("buildSystemPrompt", enableToolUse, responseSchema,
          buildSystemPrompt(Names(ToolManager_listTools(clientTools)), enableToolUse,
                            responseSchema, now))

\* AIClient.buildSystemPrompt, lines 45-148
BuildSystemPromptFirst(enableToolUse, responseSchema) ==
    Built("buildSystemPrompt.first", enableToolUse, responseSchema,
          buildSystemPrompt1(Names(ToolManager_listTools(clientTools)), enableToolUse,
                             responseSchema))

ClientNext ==
    \/ \E t \in ClientTools : AddTool(t)
    \/ \E n \in ClientNames : RemoveTool(n)
    \/ ListTools
    \/ \E c \in ClientCalls : ManagerExecuteTool(c)
    \/ \E c \in ClientCalls : ClientExecuteTool(c)
    \/ \E c \in ClientCalls : FirstClientExecuteTool(c)
    \/ \E e \in BOOLEAN, m \in ToolCallArgs : Generate(e, m)
    \/ \E r \in ClientResponses : GenerateRawResolves(r)
    \/ \E msg \in GenerateErrors : GenerateRawRejects(msg)

ClientSpec == ClientInit /\ [][ClientNext]_vars

\* a client whose system prompt the application builds as it adds tools
BuilderNext ==
    \/ \E t \in ClientTools : AddTool(t)
    \/ \E e \in BOOLEAN, sc \in Schemas \cup {NoSchema}, now \in Clock :
           BuildSystemPrompt(e, sc, now)
    \/ \E e \in BOOLEAN, sc \in Schemas \cup {NoSchema} : BuildSystemPromptFirst(e, sc)

BuilderSpec == ClientInit /\ [][BuilderNext]_vars

(***************************************************************************)
(* The parsing methods of the two AIClient classes, each applied once to   *)
(* an input of its own: none of them reads or writes a field.              *)
(***************************************************************************)
Applied(fn, value, rendered, pieces, text, out) ==
    /\ fnIn = NoInput
    /\ fnIn' = [fn |-> fn, value |-> value, rendered |-> rendered, pieces |-> pieces,
                text |-> text]
    /\ fnOut' = out
    /\ UNCHANGED <<agentVars, clientVars, chatVars, callVars>>

\* AIClient.parseValue, lines 175-201
ParseValue(value) == Applied("parseValue", value, FALSE, <<>>, <<>>, parseValue(value))

\* AIClient.extractToolCalls, lines 150-173
ExtractToolCallsFirst(ps) ==
    Applied("extractToolCalls.first", <<>>, TRUE, ps, Render1(ps),
            extractToolCalls1(Render1(ps), 1))

\* AIClient.parseToolCalls, lines 203-220
ParseToolCalls(ps) ==
    Applied("parseToolCalls", <<>>, TRUE, ps, Render1(ps), parseToolCalls(Render1(ps)))

\* AIClient.extractToolCalls, lines 567-598, on a response made of pieces
ExtractToolCalls(ps) ==
    Applied("extractToolCalls", <<>>, TRUE, ps, Render2(ps), extractToolCalls(Render2(ps)))

\* ... and on one of the responses the Agent is given
ExtractToolCallsOf(r) ==
    Applied("extractToolCalls", <<>>, FALSE, <<>>, r, ToolCallsOf[r])

ParserNext ==
    \/ \E v \in RawValues : ParseValue(v)
    \/ \E ps \in PieceLists(Blocks1 \cup {Prose, Blank}) : ExtractToolCallsFirst(ps)
    \/ \E ps \in PieceLists(Blocks1 \cup {Prose, Blank}) : ParseToolCalls(ps)
    \/ \E ps \in PieceLists(Blocks2 \cup {Prose}) : ExtractToolCalls(ps)
    \/ \E r \in Responses : ExtractToolCallsOf(r)

ParserSpec == ClientInit /\ [][ParserNext]_vars

(***************************************************************************)
(* Properties                                                              *)
(***************************************************************************)
SchemaCallDone == pc = "done" /\ cur.hasSchema /\ genCalls >= 1
RawCallDone == pc = "done" /\ ~cur.hasSchema /\ genCalls >= 1

\* C1: a schema call whose every generation returned text without a JSON
\* object, with a budget k >= 1, ends after exactly k generation calls with
\* validationError set and no parsedResponse.
C1_RetryBudget ==
    (SchemaCallDone /\ onlyNoJson /\ genFails = 0 /\ cur.maxRetries >= 1)
        => /\ genCalls = cur.maxRetries
           /\ result.status = "resolved"
           /\ result.hasError
           /\ ~result.hasParsed

C1_Witness ==
    /\ SchemaCallDone /\ onlyNoJson /\ genFails = 0
    /\ cur.maxRetries = 2 /\ agentMaxRetries = DEFAULT_maxRetries
    /\ genCalls = 2
    /\ result.validationError.kind = "nojson"

\* C2: once the response of attempt j is the first that parses and validates,
\* no further generation call is made (exactly j were made) and the call
\* returns that response's validated value, with no validationError.
C2_ValidationStops ==
    (cur.hasSchema /\ firstValid # 0)
        => /\ genCalls = firstValid
           /\ pc \in {"dispatch", "done"}
           /\ pc = "done" =>
                /\ result.status = "resolved"
                /\ result.hasParsed
                /\ ~result.hasError
                /\ result.parsedResponse =
                       safeParse(cur.schema, JSONparse(jsonMatch(resp).text).obj).data

C2_Witness ==
    /\ pc = "done" /\ cur.hasSchema /\ firstValid = 2 /\ genCalls = 2
    /\ result.hasParsed
    /\ result.parsedResponse = (<<"customer_id">> :> [ty |-> "string", val |-> "C0001451"])

\* C3: the prompt of every retry strictly extends the prompt of the attempt
\* before it and still starts with the original prompt.
C3_PromptsAccumulate ==
    \A n \in 1..(Len(sentPrompts) - 1) :
        /\ \E rem \in Reminders : sentPrompts[n + 1] = RetryMessage(sentPrompts[n], rem)
        /\ Len(sentPrompts[n + 1]) > Len(sentPrompts[n])
        /\ IsPrefix(sentPrompts[n], sentPrompts[n + 1])
        /\ IsPrefix(FullPrompt, sentPrompts[n + 1])

C5_ExhaustionNotThrown ==
    SchemaCallDone
        => /\ result.status = "resolved"
           /\ firstValid = 0 => (result.hasError /\ result.validationError.kind # "none")

C5_Witness ==
    /\ SchemaCallDone /\ genFails >= 1 /\ genCalls = cur.maxRetries /\ genCalls >= 2
    /\ firstValid = 0
    /\ result.toolCalls # <<>>
    /\ result.hasError

\* C6: a raw call whose generation fails rejects with an execution error
\* wrapping the failure's message.
C6_RawPropagates ==
    (RawCallDone /\ genFails = genCalls)
        => /\ result.status = "rejected"
           /\ result.thrown \in GenerateErrors

\* C7: a raw call ends at its first successful generation (one generation
\* call when none failed), returns that response's text unchanged with the
\* tool calls accumulated, and never carries a parsedResponse.
C7_RawReturnsText ==
    /\ (pc = "done" /\ ~cur.hasSchema) => ~result.hasParsed
    /\ (RawCallDone /\ genCalls > genFails)
          => /\ genCalls = genFails + 1
             /\ result.status = "resolved"
             /\ result.response = resp
             /\ result.toolCalls = pending
             /\ Len(result.toolCalls) = Len(extractToolCalls(resp))

C7_Witness ==
    /\ RawCallDone /\ genCalls = 1
    /\ resp = RToolThenJson
    /\ result.response = RToolThenJson
    /\ Len(result.toolCalls) = 1

\* C8: in every result, parsedResponse is present iff a schema was supplied
\* and validation succeeded, validationError iff a schema was supplied and
\* validation failed; never both, and never a validationError without schema.
C8_ResultShape ==
    (pc = "done" /\ result.status = "resolved")
        => /\ result.hasParsed <=> (cur.hasSchema /\ firstValid # 0)
           /\ result.hasError <=> (cur.hasSchema /\ firstValid = 0)
           /\ ~(result.hasParsed /\ result.hasError)

\* C9: with the customer schema and parse_customer_id registered, a response
\* made of one tool-call block followed by a valid JSON object ends the call
\* with parsedResponse taken from that object and, when it was the first
\* response, exactly one tool call naming the tool with its parameters.
C9_ToolThenJson ==
    (/\ cur.hasSchema /\ cur.schema = customerSchema
     /\ InSeq("parse_customer_id", registry)
     /\ resp = RToolThenJson
     /\ pc \in {"generating", "done"})
        => /\ pc = "done"
           /\ result.hasParsed
           /\ result.parsedResponse = JSONparse(CustomerJson).obj
           /\ genCalls = 1 =>
                /\ Len(result.toolCalls) = 1
                /\ result.toolCalls[1].name = "parse_customer_id"
                /\ result.toolCalls[1].parameters =
                       (<<"customerid">> :> [ty |-> "number", val |-> "1451"])

\* C10: of the tool calls of one response at most MaxToolCallsPerTurn are
\* run by the tool's execute, and at most that many are appended to the
\* accumulated tool-call list.
C10_MaxToolCallsPerTurn ==
    /\ Cardinality({i \in 1..Len(pending) : pending[i].result.kind = "data"})
           <= MaxToolCallsPerTurn
    /\ (pc \in {"generating", "done"} /\ InSeq("parse_customer_id", registry))
           => Len(pending) <= MaxToolCallsPerTurn

(***************************************************************************)
(* Properties of the client and of the ToolManager                         *)
(***************************************************************************)
GenerateReturned == lastOp.op = "generate" /\ lastOp.state = "returned" /\ ~lastOp.threw

\* C11: a generate call with enableToolUse = true, whose response names
\* registered tools only, returns only once its
\* last response holds no tool call or maxToolCalls tool executions were
\* made; it returns the text of that last response, and tool.execute ran
\* once per tool call, at most maxToolCalls times.
C11_ToolLoop ==
    (/\ GenerateReturned /\ lastOp.enableToolUse
     /\ \A i \in 1..Len(ToolCallsOf[lastOp.raw]) :
            InSeq(ToolCallsOf[lastOp.raw][i].name, Names(clientTools)))
        => /\ \/ ToolCallsOf[lastOp.raw] = <<>>
              \/ lastOp.maxToolCalls # Unset /\ Len(lastOp.invoked) >= lastOp.maxToolCalls
           /\ lastOp.text = lastOp.raw
           /\ lastOp.maxToolCalls # Unset => Len(lastOp.invoked) <= lastOp.maxToolCalls

C13_AddUnique ==
    /\ \A i, j \in 1..Len(clientTools) :
           clientTools[i].name = clientTools[j].name => i = j
    /\ addLog.pure => clientTools = addLog.tools
    /\ (lastOp.op = "listTools" /\ addLog.pure)
           => /\ lastOp.listed = addLog.tools
              /\ Len(lastOp.listed)
                     = Cardinality({addLog.tools[i].name : i \in 1..Len(addLog.tools)})
    /\ lastOp.op = "addTool"
           => IF InSeq(lastOp.name, Names(lastOp.before))
              THEN /\ lastOp.threw
                   /\ lastOp.error = [kind |-> "exists", name |-> lastOp.name]
                   /\ clientTools = lastOp.before
              ELSE /\ ~lastOp.threw
                   /\ clientTools = lastOp.before \o <<lastOp.tool>>

C13_Witness ==
    /\ lastOp.op = "addTool" /\ lastOp.threw
    /\ lastOp.tool = [name |-> "boom", rev |-> 2]
    /\ addLog.pure /\ Len(addLog.tools) = 3
    /\ clientTools[2] = [name |-> "boom", rev |-> 1]

\* C14: removeTool of a registered name deletes exactly that tool and keeps
\* every other tool, in order; removeTool of an absent name throws the
\* not-found error and leaves the registry unchanged; addTool(t) followed by
\* removeTool(t.name) gives back the registry as it was before the add.
C14_Remove ==
    /\ lastOp.op = "removeTool"
           => IF InSeq(lastOp.name, Names(lastOp.before))
              THEN /\ ~lastOp.threw
                   /\ ~InSeq(lastOp.name, Names(clientTools))
                   /\ Len(clientTools) = Len(lastOp.before) - 1
                   /\ \A i, j \in 1..Len(lastOp.before) :
                          (i < j /\ lastOp.before[i].name # lastOp.name
                                 /\ lastOp.before[j].name # lastOp.name)
                              => \E k, l \in 1..Len(clientTools) :
                                     /\ k < l
                                     /\ clientTools[k] = lastOp.before[i]
                                     /\ clientTools[l] = lastOp.before[j]
                   /\ \A i \in 1..Len(lastOp.before) :
                          lastOp.before[i].name # lastOp.name
                              => InSeq(lastOp.before[i], clientTools)
              ELSE /\ lastOp.threw
                   /\ lastOp.error = [kind |-> "notfound", name |-> lastOp.name]
                   /\ clientTools = lastOp.before
    /\ (lastOp.op = "removeTool" /\ prevOp.op = "addTool" /\ prevOp.name = lastOp.name)
           => clientTools = prevOp.before

C14_Witness ==
    /\ lastOp.op = "removeTool" /\ ~lastOp.threw
    /\ prevOp.op = "addTool" /\ prevOp.name = lastOp.name
    /\ Len(clientTools) = 2

ExecuteOps == {"ToolManager.executeTool", "AIClient.executeTool", "AIClient.executeTool.first"}

RequiredMissing(name, parameters) ==
    {ToolParameters(name)[i].name : i \in
        {j \in 1..Len(ToolParameters(name)) :
            ToolParameters(name)[j].required /\ ~Has(parameters, ToolParameters(name)[j].name)}}

\* C16: executing a registered tool without one of its required parameters
\* returns success = false with an error that names a missing parameter and
\* does not call tool.execute; tool.execute is only ever called with every
\* required parameter present.
C16_MissingRequired ==
    lastOp.op \in ExecuteOps
        => /\ (/\ InSeq(lastOp.name, Names(clientTools))
               /\ RequiredMissing(lastOp.name, lastOp.parameters) # {})
                  => /\ ~lastOp.result.success
                     /\ lastOp.result.kind = "missing"
                     /\ lastOp.result.names # <<>>
                     /\ \A k \in 1..Len(lastOp.result.names) :
                            lastOp.result.names[k]
                                \in RequiredMissing(lastOp.name, lastOp.parameters)
                     /\ lastOp.invoked = <<>>
           /\ \A k \in 1..Len(lastOp.invoked) :
                  RequiredMissing(lastOp.invoked[k].name, lastOp.invoked[k].parameters) = {}

C16_Witness ==
    /\ lastOp.op = "ToolManager.executeTool"
    /\ lastOp.name = "calculator"
    /\ InSeq("calculator", Names(clientTools))
    /\ lastOp.result.kind = "missing"
    /\ lastOp.invoked = <<>>

\* C17: when several required parameters are missing, the failed result of
\* ToolManager.executeTool names every one of them.
C17_AllMissingNamed ==
    (lastOp.op = "ToolManager.executeTool" /\ lastOp.result.kind = "missing")
        => \A n \in RequiredMissing(lastOp.name, lastOp.parameters) :
               InSeq(n, lastOp.result.names)

\* C19: every result of an executeTool is a record with a boolean success,
\* with data exactly when success is true and error exactly when it is false.
C19_ToolResultShape ==
    lastOp.op \in ExecuteOps
        => /\ IsResultRecord(lastOp.result)
           /\ HasData(lastOp.result) <=> lastOp.result.success
           /\ HasError(lastOp.result) <=> ~lastOp.result.success

(***************************************************************************)
(* Properties of tool execution inside Agent.executeWithRetry              *)
(***************************************************************************)
\* registries of up to two tools
NameLists ==
    {<<>>} \cup {<<a>> : a \in ClientToolNames}
           \cup {p \in {<<a, b>> : a, b \in ClientToolNames} : p[1] # p[2]}

IsSuffix(a, b) == Len(a) <= Len(b) /\ SubSeq(b, Len(b) - Len(a) + 1, Len(b)) = a

\* the attempt is past its tool loop
AttemptSettled == pc \in {"generating", "done"}

NotFoundIsFailure ==
    \A reg \in NameLists, call \in ClientCalls :
        ~InSeq(call.name, reg)
            => /\ ToolManager_executeTool(reg, call)
                      = [success |-> FALSE, kind |-> "notfound", val |-> call.name,
                         names |-> <<>>]
               /\ executeTool(reg, call) = ToolManager_executeTool(reg, call)

\* C15: executing a name that is not registered returns success = false
\* with an error naming the tool; in executeWithRetry such a call gets that
\* result, every tool call of the response is still executed and recorded in
\* toolCalls, and whether the attempt is retried is what it would be
\* without any tool call.
C15_NotFound ==
    /\ []NotFoundIsFailure
    /\ [](AttemptSettled =>
            /\ resp \in Responses => Len(pending) = Len(ToolCallsOf[resp])
            /\ \A i \in 1..Len(pending) :
                  /\ pending[i].result.kind # "pending"
                  /\ ~InSeq(pending[i].name, registry)
                        => pending[i].result
                               = [success |-> FALSE, kind |-> "notfound",
                                  val |-> pending[i].name, names |-> <<>>])
    /\ []((pc = "done" /\ result.status = "resolved") => IsSuffix(pending, result.toolCalls))
    /\ [][(pc = "dispatch" /\ pc' # "dispatch")
             => ((pc' = "generating")
                    <=> Settle(resp, cur.hasSchema, cur.schema, cur.attempt,
                               cur.maxRetries, <<>>).retry)]_vars

C15_Witness ==
    /\ pc = "done" /\ cur.hasSchema /\ genCalls = 2
    /\ Len(result.toolCalls) = 6
    /\ result.toolCalls[1].name = "ghost"
    /\ result.toolCalls[1].result.kind = "notfound"
    /\ result.toolCalls[2].result.kind = "threw"
    /\ result.toolCalls[6].result.kind = "missing"

ThrowsAreCaught ==
    \A reg \in NameLists, call \in ClientCalls :
        (/\ InSeq(call.name, reg)
         /\ RequiredMissing(call.name, call.parameters) = {}
         /\ ToolBody(call.name, call.parameters).threw)
            => /\ ToolManager_executeTool(reg, call)
                      = [success |-> FALSE, kind |-> "threw",
                         val |-> ToolBody(call.name, call.parameters).val, names |-> <<>>]
               /\ executeTool(reg, call) = ToolManager_executeTool(reg, call)

\* C18: an exception thrown by a tool's execute is returned as a failed
\* result carrying its message; in executeWithRetry the tool calls after it
\* are still executed, and the call resolves.
C18_ToolErrorsContained ==
    /\ ThrowsAreCaught
    /\ pc = "dispatch" => (idx <= Len(pending) /\ toolExecs = idx - 1)
    /\ AttemptSettled =>
          \A i \in 1..Len(pending) :
              /\ pending[i].result.kind # "pending"
              /\ (/\ InSeq(pending[i].name, registry)
                  /\ pending[i].ptype = "object"
                  /\ RequiredMissing(pending[i].name, pending[i].parameters) = {}
                  /\ ToolBody(pending[i].name, pending[i].parameters).threw)
                     => pending[i].result
                            = [success |-> FALSE, kind |-> "threw",
                               val |-> ToolBody(pending[i].name, pending[i].parameters).val,
                               names |-> <<>>]
    /\ (pc = "done" /\ genCalls >= 1) => result.status = "resolved"

C18_Witness ==
    /\ pc = "done" /\ ~cur.hasSchema
    /\ resp = RMixedTools
    /\ pending[2].result
           = [success |-> FALSE, kind |-> "threw", val |-> "boom failed", names |-> <<>>]
    /\ pending[3].result.kind = "missing"
    /\ result.status = "resolved"
    /\ Len(result.toolCalls) = 3

Count(x, sq) == Cardinality({i \in 1..Len(sq) : sq[i] = x})

\* C20: addTools keeps what listTools returned and adds every tool given,
\* and it never adds a tool whose name is already in the Agent's tool set or
\* in the registry of its client: such a call throws and changes nothing.
C20_AddToolsDelegates ==
    [][agentTools' # agentTools
          => /\ IsPrefix(agentTools, agentTools')
             /\ \A t \in ToolNames :
                    (InSeq(t, agentTools) \/ InSeq(t, registry))
                        => Count(t, agentTools') = Count(t, agentTools)]_vars

(***************************************************************************)
(* Properties of the parsers and of the prompt builders                    *)
(***************************************************************************)
Quoted(raw) == Len(raw) >= 2 /\ raw[1] = raw[Len(raw)] /\ raw[1] \in {"dq", "sq"}
Unquoted(raw) == raw = Trim(raw) /\ ~Quoted(raw)

\* the value the coercion table gives for an unquoted raw value
Coerced(raw) ==
    IF AllDigits(raw) THEN Value("number", raw)
    ELSE IF raw \in {<<"true">>, <<"TRUE">>} THEN Value("boolean", <<"true">>)
    ELSE IF raw = <<"false">> THEN Value("boolean", <<"false">>)
    ELSE IF (StartsWith(raw, "lb") \/ StartsWith(raw, "lc")) /\ IsJson(raw)
    THEN Value(IF raw[1] = "lb" THEN "array" ELSE "object", raw)
    ELSE Value("string", raw)

\* C21: parseValue turns a numeric literal into a number, true and false in
\* any letter case into a boolean, a bracketed value that is valid JSON into
\* the parsed array or object, a malformed bracketed value and anything else
\* into the raw string.
C21_Coercion ==
    (fnIn.fn = "parseValue" /\ Unquoted(fnIn.value)) => fnOut = Coerced(fnIn.value)

\* C22: a value wrapped in matching quotes is coerced to the string between
\* the quotes, never to a number, a boolean, an array or an object.
C22_QuotedIsString ==
    (fnIn.fn = "parseValue" /\ Quoted(fnIn.value))
        => fnOut = Value("string", Slice1(fnIn.value))

BlocksOf(ps) == SelectSeq(ps, LAMBDA p : p.kind = "block")

\* C23: from a response holding m well-formed tool-call blocks the parser
\* returns exactly m requests, in the order of the blocks, each with the tool
\* name and the parameter mapping of its block.
C23_CompleteOrdered ==
    (fnIn.rendered /\ fnIn.fn \in {"extractToolCalls", "extractToolCalls.first"})
        => LET bs == BlocksOf(fnIn.pieces)
           IN  /\ Len(fnOut) = Len(bs)
               /\ \A i \in 1..Len(bs) :
                     /\ fnOut[i].name = bs[i].name
                     /\ fnOut[i].parameters =
                            IF fnIn.fn = "extractToolCalls"
                            THEN Obj(bs[i].params)
                            ELSE [j \in 1..Len(bs[i].params) |->
                                     [key |-> bs[i].params[j].key,
                                      value |-> parseValue(bs[i].params[j].raw)]]

\* the value an example block of the <tool> format prints for every parameter
ExampleValue == Value("string", <<"word">>)

C25_NoMarkers ==
    /\ (fnIn.fn = "parseToolCalls" /\ \A i \in 1..Len(fnIn.text) : fnIn.text[i].k # "open")
          => /\ fnOut.toolCalls = <<>>
             /\ fnOut.remainingText = TrimLines(fnIn.text)
    /\ (/\ fnIn.fn \in {"extractToolCalls", "extractToolCalls.first"}
        /\ \A i \in 1..Len(fnIn.text) : fnIn.text[i].k \notin {"open", "tc"})
          => fnOut = <<>>

\* the response without the tool-call blocks the expression of
\* extractToolCalls matches
RECURSIVE Residual(_, _)
Residual(s, from) ==
    IF Starts(s, from) = {} THEN SubSeq(s, from, Len(s))
    ELSE LET i == Min(Starts(s, from))
             e == Min(EndsFrom(s, Min(ParamsFrom(s, Min(ToolsFrom(s, i))))))
         IN  SubSeq(s, from, i - 1) \o Residual(s, e + 2)

\* the call ended on a return statement of lines 133-205
SettledOnResponse ==
    /\ SchemaCallDone /\ result.status = "resolved"
    /\ result.validationError.kind # "message"

\* C26: the JSON candidate is taken from the response without its tool-call
\* blocks: it is the span from the first { to the last } of that text, it is
\* absent when that text has no such span, and no brace of a tool-call block
\* is part of it.
C26_CandidateFromResidual ==
    (SettledOnResponse /\ Starts(resp, 1) # {})
        => /\ result.hasParsed <=> IsValidFor(cur.schema, Residual(resp, 1))
           /\ result.hasParsed => result.response = jsonMatch(Residual(resp, 1)).text
           /\ ~jsonMatch(Residual(resp, 1)).found
                  => result.validationError.kind = "nojson"

Max(S) == CHOOSE x \in S : \A y \in S : y <= x

\* C27: when validation succeeds the response returned is the span of the
\* text from its first { to its last }, not the whole text, and
\* parsedResponse is the value the schema validated.
C27_SuccessReturnsMatch ==
    (SchemaCallDone /\ result.hasParsed)
        => /\ result.response =
                  SubSeq(resp, Min({i \in 1..Len(resp) : resp[i].k = "lb"}),
                               Max({i \in 1..Len(resp) : resp[i].k = "rb"}))
           /\ result.parsedResponse
                  = safeParse(cur.schema, JSONparse(result.response).obj).data

C27_Witness ==
    /\ SchemaCallDone /\ result.hasParsed
    /\ resp = RWrapped
    /\ result.response = CustomerJson
    /\ result.parsedResponse = JSONparse(CustomerJson).obj

\* C28: two buildSystemPrompt calls made with the same tools registered and
\* the same schema return the same text, and a call leaves the registry as
\* it was.
C28_BuildIsPure ==
    /\ lastOp.op = "buildSystemPrompt" => clientTools = lastOp.before
    /\ (/\ lastOp.op = "buildSystemPrompt" /\ prevOp.op = "buildSystemPrompt"
        /\ lastOp.before = prevOp.before
        /\ lastOp.enableToolUse = prevOp.enableToolUse
        /\ lastOp.responseSchema = prevOp.responseSchema)
          => lastOp.prompt = prevOp.prompt

\* C29: no call changes the configuration or the maxRetries the Agent was
\* constructed with; a call that passes no maxRetries runs with the Agent's,
\* and a chat request carries the per-call temperature and model when they
\* are given and the Agent's otherwise.
C29_ConfigFixed ==
    /\ [][agentConfig' = agentConfig /\ agentMaxRetries' = agentMaxRetries]_vars
    /\ [][(pc = "idle" /\ pc' = "generating" /\ ~cur'.hasSchema)
             => cur'.maxRetries = agentMaxRetries]_vars
    /\ [][\A sc \in Schemas, ts \in ToolLists :
             (ExecuteWithSchema(sc, ts, Unset) /\ pc' = "generating")
                 => cur'.maxRetries = agentMaxRetries]_vars
    /\ [](chat.state # "none"
            => /\ chat.sent.temperature \in {chat.options.temperature, agentConfig.temperature}
               /\ chat.options.temperature = "" => chat.sent.temperature = agentConfig.temperature
               /\ chat.sent.model = IF chat.options.model = "" THEN agentConfig.modelName
                                    ELSE chat.options.model)

C29_Witness ==
    /\ nExec = 2 /\ pc = "chatted" /\ chat.state = "returned"
    /\ chat.options.temperature = "0.2" /\ chat.sent.temperature = "0.2"
    /\ agentConfig.temperature = "0.8" /\ agentMaxRetries = 1

\* C30: chat returns a history made of the messages it was given, in order,
\* followed by one assistant message whose content is the content returned;
\* the caller's array is as it was, the request carries the given messages
\* only, and the Agent keeps nothing of a chat call after it returned.
C30_ChatHistory ==
    /\ chat.state = "returned"
          => /\ chat.history = chat.given \o <<Msg("assistant", chat.content)>>
             /\ chat.messages = chat.given
    /\ chat.state # "none" => chat.sent.messages = chat.given
    /\ pc \notin {"chatting", "chatted"} => chat = NoChat

C30_Witness ==
    /\ chat.state = "returned"
    /\ Len(chat.given) = 3 /\ Len(chat.history) = 4
    /\ chat.content = "TypeScript is typed."
    /\ chat.history[4] = Msg("assistant", "TypeScript is typed.")

(***************************************************************************)
(* Properties of one execute call: budget, accumulation, order of phases   *)
(***************************************************************************)
InCall == pc \in {"generating", "dispatch", "done"} /\ genCalls >= 1

\* C31: in one execute call the number of generation calls never exceeds the
\* maxRetries the call runs with (the per-call value when one was given, the
\* constructor's otherwise), whatever that value is, 0 and 1 included.
C31_AttemptBound ==
    InCall => genCalls <= cur.maxRetries

\* C40: within one execute call attempt is 1 at the first generation call,
\* grows by exactly 1 at each retry whatever made the attempt fail, never
\* shrinks, equals the number of generation calls started so far, and a
\* retry of any kind is granted only while attempt < maxRetries.
C40_AttemptCounter ==
    /\ [](InCall => cur.attempt = genCalls)
    /\ [][/\ (genCalls = 0 /\ genCalls' >= 1) => cur'.attempt = 1
          /\ (InCall /\ genCalls' >= 1)
                => /\ cur'.attempt >= cur.attempt
                   /\ cur'.maxRetries = cur.maxRetries
                   /\ (pc' = "generating" /\ (pc = "dispatch" \/ genCalls' # genCalls))
                         => /\ cur'.attempt = cur.attempt + 1
                            /\ genCalls' = genCalls + 1
                            /\ cur.attempt < cur.maxRetries
                   /\ (pc' = "done" /\ pc # "done" /\ result'.hasError)
                         => cur.attempt >= cur.maxRetries]_vars

C40_Witness ==
    /\ SchemaCallDone /\ cur.maxRetries = 3 /\ cur.attempt = 3 /\ genCalls = 3
    /\ genFails = 1 /\ ~onlyNoJson
    /\ result.validationError.kind = "badjson"

\* C32: the toolCalls of the final result are the tool calls executed in
\* every attempt of the call, concatenated in attempt order: each attempt
\* appends all the calls it executed, in order, to the list it was given,
\* failed attempts included, no other step of the call touches the list,
\* and the result returns the list as accumulated.
C32_ToolCallsAccumulate ==
    /\ []((pc = "done" /\ genCalls >= 1) => result.toolCalls = cur.toolResults)
    /\ [][(InCall /\ genCalls' >= 1)
            => IF pc = "dispatch" /\ pc' # "dispatch"
               THEN /\ cur'.toolResults = cur.toolResults \o pending'
                    /\ \A i \in 1..Len(pending') : pending'[i].result # NoToolResult
               ELSE cur'.toolResults = cur.toolResults]_vars

C32_Witness ==
    /\ SchemaCallDone /\ genCalls = 3 /\ result.hasError
    /\ resp = RTool
    /\ Len(result.toolCalls) = 5
    /\ result.toolCalls[1].name = "ghost"
    /\ result.toolCalls[4].name = "parse_customer_id"
    /\ result.toolCalls[5].name = "parse_customer_id"

\* C33: in one turn the calls extracted from the response are executed one
\* at a time in extraction order: while call idx is awaited the calls before
\* it have their results and the calls after it have not started, and the
\* step that completes call idx stores the result of that very call in
\* entry idx and leaves the other entries alone.
C33_SequentialDispatch ==
    /\ [](pc = "dispatch"
            => /\ idx \in 1..Len(pending)
               /\ toolExecs = idx - 1
               /\ Len(pending) = Len(ToolCallsOf[resp])
               /\ \A i \in 1..Len(pending) :
                     /\ pending[i].name = ToolCallsOf[resp][i].name
                     /\ pending[i].parameters = ToolCallsOf[resp][i].parameters
                     /\ (i < idx) = (pending[i].result # NoToolResult))
    /\ [][pc = "dispatch"
            => /\ toolExecs' = toolExecs + 1
               /\ pending'[idx].result = executeTool(registry, ToolCallsOf[resp][idx])
               /\ \A j \in 1..Len(pending) : j # idx => pending'[j] = pending[j]]_vars

C33_Witness ==
    /\ pc = "dispatch" /\ resp = RMixedTools /\ idx = 3
    /\ pending[1].result.kind = "notfound"
    /\ pending[2].name = "boom" /\ pending[2].result # NoToolResult
    /\ pending[3].result = NoToolResult

\* C34: in every attempt the generation call completes before any tool of
\* the attempt is dispatched, every tool execution of the attempt completes
\* before the response is validated, the next generation call starts only
\* after the attempt was rejected (its response invalid for the schema, or
\* the generation call failed), and at no time are two awaited operations
\* of one call pending together.
C34_PhaseOrder ==
    /\ [](pc = "generating"
            => /\ idx = 0 /\ genCalls = cur.attempt
               /\ \A i \in 1..Len(pending) : pending[i].result # NoToolResult)
    /\ [](pc = "dispatch"
            => /\ resp \in Responses /\ genCalls = cur.attempt
               /\ idx \in 1..Len(pending) /\ pending[idx].result = NoToolResult
               /\ \A i \in 1..Len(pending) : i > idx => pending[i].result = NoToolResult)
    /\ [][/\ (pc' = "dispatch" /\ pc # "dispatch")
                => /\ pc = "generating" /\ resp' \in Responses
                   /\ toolExecs' = 0 /\ genCalls' = genCalls
                   /\ \A i \in 1..Len(pending') : pending'[i].result = NoToolResult
          /\ toolExecs' > toolExecs => pc = "dispatch" /\ genCalls' >= genCalls
          /\ (InCall /\ pc # "done" /\ pc' # "dispatch" /\ genFails' = genFails)
                => /\ toolExecs' = Len(ToolCallsOf[resp'])
                   /\ \A i \in 1..Len(pending') : pending'[i].result # NoToolResult
          /\ (InCall /\ genCalls' = genCalls + 1)
                => /\ pc' = "generating"
                   /\ \/ pc = "generating" /\ genFails' = genFails + 1
                      \/ /\ genFails' = genFails
                         /\ cur.hasSchema /\ ~ValidFor[cur.schema][resp']]_vars

C34_Witness ==
    /\ pc = "generating" /\ genCalls = 2 /\ genFails = 0
    /\ resp = RMixedTools /\ toolExecs = 3
    /\ \A i \in 1..3 : pending[i].result # NoToolResult

\* C35: when the last permitted attempt's JSON candidate parses but fails
\* the schema, the validationError of the result holds every issue the
\* schema engine reports for the candidate (path and message), in the
\* engine's order, and the response returned is the span of the text from
\* its first { to its last }.
C35_SchemaErrors ==
    (SchemaCallDone /\ genFails = 0 /\ result.status = "resolved"
        /\ jsonMatch(resp).found /\ JSONparse(jsonMatch(resp).text).ok
        /\ ~ValidFor[cur.schema][resp])
        => /\ result.hasError /\ ~result.hasParsed
           /\ result.validationError.kind = "schema"
           /\ result.response =
                  SubSeq(resp, Min({i \in 1..Len(resp) : resp[i].k = "lb"}),
                               Max({i \in 1..Len(resp) : resp[i].k = "rb"}))
           /\ result.validationError.errors
                  = Issues(cur.schema, JSONparse(result.response).obj, 1)
           /\ result.validationError.errors # <<>>

C35_Witness ==
    /\ SchemaCallDone /\ cur.schema = personSchema /\ resp = RWrapped
    /\ genCalls = 2
    /\ result.response = CustomerJson
    /\ result.validationError.kind = "schema"
    /\ Len(result.validationError.errors) = 2
    /\ result.validationError.errors[1].path = "name"
    /\ result.validationError.errors[2].path = "age"

NoDuplicates(names) ==
    \A i, j \in 1..Len(names) : names[i] = names[j] => i = j

\* C36: once tools were added to an Agent, every execute call made on it
\* reaches the generation step and returns a result, and after each call the
\* registry holds each tool name once.
C36_RepeatedUse ==
    (pc = "done" /\ agentTools # <<>>)
        => /\ genCalls >= 1
           /\ result.status = "resolved"
           /\ NoDuplicates(registry)

\* C39: when every generation call and every tool execution settles, every
\* execute call that started a generation reaches its end, whatever its
\* maxRetries and even when every response holds tool calls and fails
\* validation; the generation calls of a call never exceed its budget (one
\* when the budget is below one) and the tool executions of an attempt never
\* exceed the calls its response holds.
C39_Termination ==
    /\ (pc \in {"generating", "dispatch"}) ~> (pc = "done")
    /\ [](InCall => /\ genCalls <= cur.maxRetries \/ genCalls = 1
                    /\ resp \in Responses => toolExecs <= Len(ToolCallsOf[resp]))

C39_Witness ==
    /\ SchemaCallDone /\ cur.maxRetries = 3 /\ genCalls = 3 /\ genFails = 0
    /\ resp = RManyTools
    /\ result.hasError
    /\ Len(result.toolCalls) >= 3 * (MaxToolCallsPerTurn + 1)

(***************************************************************************)
(* Properties of execute calls in progress together                        *)
(***************************************************************************)
CallNames(list) == [i \in 1..Len(list) |-> <<list[i].name, list[i].parameters>>]

\* the calls a frame has executed so far: those of its finished attempts and
\* those of the running loop that have their result
ExecutedBy(f) ==
    f.toolResults \o (IF f.pc = "dispatch" THEN SubSeq(f.pending, 1, f.idx - 1) ELSE <<>>)

\* C37: when two execute calls on one Agent are interleaved at their awaits,
\* a step of one call leaves the attempt counter, the accumulated tool calls
\* and every other local of the other call as they were; each call's attempt
\* equals the generation calls it made itself and stays within its own
\* maxRetries, and its toolCalls are the calls extracted from its own
\* responses, in order.
C37_CallStateIsPrivate ==
    /\ [](\A c \in CallIds :
            frames[c].genCalls >= 1
                => /\ frames[c].attempt = frames[c].genCalls
                   /\ frames[c].attempt <= frames[c].maxRetries
                   /\ CallNames(ExecutedBy(frames[c]))
                          = SubSeq(CallNames(frames[c].seen), 1, Len(ExecutedBy(frames[c])))
                   /\ frames[c].pc \in {"generating", "done"}
                          => Len(ExecutedBy(frames[c])) = Len(frames[c].seen)
                   /\ frames[c].pc = "done"
                          => /\ frames[c].result.toolCalls = frames[c].toolResults
                             /\ frames[c].result.hasError
                                    => frames[c].attempt = frames[c].maxRetries)
    /\ [][\A c, d \in CallIds :
            (c # d /\ frames'[c] # frames[c]) => frames'[d] = frames[d]]_vars

C37_Witness ==
    /\ frames[1].pc = "dispatch" /\ frames[1].resp = RMixedTools /\ frames[1].idx = 2
    /\ frames[1].maxRetries = 1 /\ frames[1].attempt = 1
    /\ frames[2].pc = "dispatch" /\ frames[2].resp = RTool
    /\ frames[2].maxRetries = 2 /\ frames[2].attempt = 2
    /\ Len(frames[2].toolResults) = 3

\* C38: a tool call of a suspended execute call is looked up in the registry
\* as it is when the call is dispatched, whatever was removed or added since
\* the execute call began: a name the registry does not hold then yields a
\* failed not-found result, a name it holds is run, the result is recorded
\* in toolCalls either way, and the execute call ends with a result, never
\* with a throw.
C38_RegistryAtDispatch ==
    /\ [][\A c \in CallIds :
            (frames[c].pc = "dispatch" /\ frames'[c] # frames[c])
                => LET i == frames[c].idx
                       res == frames'[c].pending[i].result
                   IN  /\ frames'[c].pending[i].name = frames[c].pending[i].name
                       /\ InSeq(frames[c].pending[i].name, registry)
                              => res.kind \notin {"pending", "notfound"}
                       /\ ~InSeq(frames[c].pending[i].name, registry)
                              => ~res.success /\ res.kind = "notfound"
                       /\ frames'[c].pc # "dispatch"
                              => /\ Len(frames'[c].toolResults) >= i
                                 /\ frames'[c].toolResults[Len(frames'[c].toolResults)]
                                        = frames'[c].pending[i]]_vars
    /\ [](\A c \in CallIds :
            (frames[c].pc = "done" /\ frames[c].genCalls >= 1)
                => /\ frames[c].result.status = "resolved"
                   /\ frames[c].result.toolCalls = frames[c].toolResults)

C38_Witness ==
    /\ frames[1].pc = "done" /\ frames[1].result.status = "resolved"
    /\ frames[1].tools = <<"parse_customer_id">>
    /\ frames[1].genCalls = 1 /\ frames[1].resp = RMixedTools
    /\ frames[1].result.toolCalls[2].name = "boom"
    /\ frames[1].result.toolCalls[2].result.kind # "notfound"
    /\ frames[1].result.toolCalls[3].name = "parse_customer_id"
    /\ frames[1].result.toolCalls[3].result.kind = "notfound"

====
